---- MODULE Spec2Model ----
(***************************************************************************)
(* Model of the Market Configuration Processor (gp-config-mcp): the        *)
(* fill-merge engine, the safety gate, the scoped-row discoverer and the   *)
(* four operation executors running inside one SQL transaction.            *)
(***************************************************************************)
EXTENDS Integers, Sequences, FiniteSets, TLC

(***************************************************************************)
(* JSON values.  A value is a record [t, v]: t is the JavaScript type tag, *)
(* v the payload.  Arrays are sequences, objects are functions from a      *)
(* finite set of keys.  "nan" is the one non-JSON number a YAML load can   *)
(* hand to the processor; JSON.stringify writes it as null.                *)
(***************************************************************************)
JNull == [t |-> "null", v |-> "null"]

JNaN == [t |-> "nan", v |-> "NaN"]

JStr(s) == [t |-> "string", v |-> s]

JNum(n) == [t |-> "number", v |-> n]

JBool(b) == [t |-> "boolean", v |-> b]

JArr(seq) == [t |-> "array", v |-> seq]

JObj(f) == [t |-> "object", v |-> f]

EmptyFcn == [k \in {} |-> JNull]

\* JSON.parse(JSON.stringify(value)): a deep copy in which NaN becomes null.
RECURSIVE clone(_)
clone(value) ==
    CASE value.t = "nan" -> JNull
      [] value.t = "array" -> JArr([i \in 1..Len(value.v) |-> clone(value.v[i])])
      [] value.t = "object" -> JObj([k \in DOMAIN value.v |-> clone(value.v[k])])
      [] OTHER -> value

isObject(value) == value.t = "object"

\* JavaScript truthiness of item[key]; a missing key reads as undefined.
Truthy(value) ==
    ~(\/ value.t \in {"null", "undefined", "nan"}
      \/ value = JStr("")
      \/ value = JNum(0)
      \/ value = JBool(FALSE))

HasStringKey(item, key) ==
    /\ isObject(item)
    /\ key \in DOMAIN item.v
    /\ item.v[key].t = "string"

idKeys == <<"id", "product_id", "category_id", "vendor_id", "service_id">>

\* arr.every(item => !isObject(item) || !item[key] || typeof item[key] === "string")
KeyAdmissible(arr, key) ==
    \A i \in 1..Len(arr) :
        \/ ~isObject(arr[i])
        \/ key \notin DOMAIN arr[i].v
        \/ ~Truthy(arr[i].v[key])
        \/ arr[i].v[key].t = "string"

KeyQualifies(arr, key) ==
    /\ KeyAdmissible(arr, key)
    /\ \E i \in 1..Len(arr) : HasStringKey(arr[i], key)

\* The first qualifying key of idKeys, or "" (JavaScript null) when none does.
detectIdKey(arr) ==
    IF \E n \in 1..Len(idKeys) : KeyQualifies(arr, idKeys[n])
    THEN idKeys[CHOOSE n \in 1..Len(idKeys) :
                    /\ KeyQualifies(arr, idKeys[n])
                    /\ \A m \in 1..(n - 1) : ~KeyQualifies(arr, idKeys[m])]
    ELSE ""

\* indexById.get(id): the Map is filled by one forEach over the cloned current
\* array, so a later element with the same id replaces an earlier one, and it
\* is never extended while incoming elements are appended.  0 is undefined.
indexById(arr, key, id) ==
    LET hits == {i \in 1..Len(arr) : HasStringKey(arr[i], key) /\ arr[i].v[key].v = id}
    IN IF hits = {} THEN 0 ELSE CHOOSE i \in hits : \A j \in hits : j <= i

RECURSIVE mergeFill(_, _)
RECURSIVE mergeArrayLoop(_, _, _, _, _, _)

\* A loop that replaces a matched element by the incoming one.
mergeArrayLoopReplacing(base, key, incoming, n, next, changed) ==
    IF n > Len(incoming)
    THEN [value |-> JArr(next), changed |-> changed]
    ELSE LET incomingItem == incoming[n] IN
         IF ~HasStringKey(incomingItem, key)
         THEN mergeArrayLoop(base, key, incoming, n + 1, next, changed)
         ELSE LET currentIndex == indexById(base, key, incomingItem.v[key].v) IN
              IF currentIndex = 0
              THEN mergeArrayLoop(base, key, incoming, n + 1,
                                  Append(next, clone(incomingItem)), TRUE)
              ELSE mergeArrayLoop(base, key, incoming, n + 1,
                                  [next EXCEPT ![currentIndex] = clone(incomingItem)], TRUE)

\* The for-loop over incoming (array branch): n is the position in incoming,
\* base the cloned current array the index was built from.
mergeArrayLoop(base, key, incoming, n, next, changed) ==
    IF n > Len(incoming)
    THEN [value |-> JArr(next), changed |-> changed]
    ELSE LET incomingItem == incoming[n] IN
         IF ~HasStringKey(incomingItem, key)
         THEN mergeArrayLoop(base, key, incoming, n + 1, next, changed)
         ELSE LET currentIndex == indexById(base, key, incomingItem.v[key].v) IN
              IF currentIndex = 0
              THEN mergeArrayLoop(base, key, incoming, n + 1,
                                  Append(next, clone(incomingItem)), TRUE)
              ELSE LET merged == mergeFill(next[currentIndex], incomingItem) IN
                   IF merged.changed
                   THEN mergeArrayLoop(base, key, incoming, n + 1,
                                       [next EXCEPT ![currentIndex] = merged.value], TRUE)
                   ELSE mergeArrayLoop(base, key, incoming, n + 1, next, changed)

mergeFill(current, incoming) ==
    IF current.t \in {"null", "undefined"} \/ current = JStr("")
    THEN [value |-> clone(incoming), changed |-> TRUE]
    ELSE IF current.t = "array" /\ incoming.t = "array"
    THEN IF Len(current.v) = 0 /\ Len(incoming.v) > 0
         THEN [value |-> clone(incoming), changed |-> TRUE]
         ELSE LET key == IF detectIdKey(current.v) # ""
                         THEN detectIdKey(current.v)
                         ELSE detectIdKey(incoming.v)
              IN IF key = ""
                 THEN [value |-> current, changed |-> FALSE]
                 ELSE LET base == clone(current).v
                      IN mergeArrayLoop(base, key, incoming.v, 1, base, FALSE)
    ELSE IF isObject(current) /\ isObject(incoming)
    THEN LET next == clone(current).v
             keys == DOMAIN next \cup DOMAIN incoming.v
             sub(k) == mergeFill(next[k], incoming.v[k])
         IN [value |-> JObj([k \in keys |->
                          IF k \notin DOMAIN next THEN clone(incoming.v[k])
                          ELSE IF k \in DOMAIN incoming.v /\ sub(k).changed
                               THEN sub(k).value
                               ELSE next[k]]),
             changed |-> \E k \in DOMAIN incoming.v :
                             k \notin DOMAIN next \/ sub(k).changed]
    ELSE [value |-> current, changed |-> FALSE]

(***************************************************************************)
(* Documents the merge engine is exercised on: scalars, array elements     *)
(* (objects carrying two of the identity keys and a payload field) and     *)
(* arrays of such elements.  Stored documents come out of a JSONB column,  *)
(* so they hold no NaN; incoming documents come out of a YAML load.        *)
(***************************************************************************)
MaxElems == 3

Absent == [t |-> "undefined", v |-> "undefined"]

MkObj(f) == JObj([k \in {x \in DOMAIN f : f[x] # Absent} |-> f[k]])

IdVals == {Absent, JStr("a"), JStr("b"), JNum(1), JNull}

PidVals == {Absent, JStr("p")}

NameValsD == {Absent, JStr(""), JStr("n")}

NameValsI == {Absent, JStr("m"), JNaN}

ElemD == {MkObj([id |-> i, product_id |-> p, name |-> n]) :
              i \in IdVals, p \in PidVals, n \in NameValsD}

ElemI == {MkObj([id |-> i, product_id |-> p, name |-> n]) :
              i \in IdVals, p \in PidVals, n \in NameValsI}

ScalarsD == {JNull, JStr(""), JStr("n"), JNum(0), JBool(FALSE)}

ScalarsI == {JNull, JStr(""), JStr("m"), JNaN}

ArraysOf(E, n) == {JArr(s) : s \in [1..n -> E]}

\* Documents of weight n: an array of n elements; a scalar or a single object
\* weighs 1.
DocsOf(S, E, n) == ArraysOf(E, n) \cup (IF n = 1 THEN S \cup E ELSE {})

(***************************************************************************)
(* The database.  db.storage is the processor's own table; db.ext maps     *)
(* the name of every other public table that exists to its JSONB columns   *)
(* and its rows.  A row carries its id, its sales_channel_id ("" when the  *)
(* table has no such column) and, per JSONB column, the value of           *)
(* column ->> 'gp_market_id' ("" when the attribute is missing).           *)
(***************************************************************************)
STORAGE_TABLE == "gp_market_runtime_config"

CHANNEL_ASSIGNMENT_TABLES ==
    <<"product_sales_channel", "publishable_api_key_sales_channel",
      "sales_channel_stock_location">>

SeqToSet(seq) == {seq[i] : i \in 1..Len(seq)}

\* Identifiers as the characters quoteIdent's regular expression runs over.
Spell(name) ==
    CASE name = "metadata" -> <<"m","e","t","a","d","a","t","a">>
      [] name = "extra" -> <<"e","x","t","r","a">>
      [] name = "product" -> <<"p","r","o","d","u","c","t">>
      [] name = "region" -> <<"r","e","g","i","o","n">>
      [] name = "sales_channel" ->
            <<"s","a","l","e","s","_","c","h","a","n","n","e","l">>
      [] name = "product_sales_channel" ->
            <<"p","r","o","d","u","c","t","_","s","a","l","e","s","_",
              "c","h","a","n","n","e","l">>
      [] name = "audit-log" -> <<"a","u","d","i","t","-","l","o","g">>
      [] OTHER -> <<"_">>

Letters ==
    {"a","b","c","d","e","f","g","h","i","j","k","l","m","n","o","p","q","r",
     "s","t","u","v","w","x","y","z","A","B","C","D","E","F","G","H","I","J",
     "K","L","M","N","O","P","Q","R","S","T","U","V","W","X","Y","Z"}

Digits == {"0","1","2","3","4","5","6","7","8","9"}

\* /^[a-zA-Z_][a-zA-Z0-9_]*$/.test(identifier)
SafeIdent(identifier) ==
    LET chars == Spell(identifier)
    IN /\ Len(chars) > 0
       /\ chars[1] \in Letters \cup {"_"}
       /\ \A i \in 2..Len(chars) : chars[i] \in Letters \cup Digits \cup {"_"}

\* SELECT table_name, column_name FROM information_schema.columns WHERE
\* udt_name = 'jsonb' ORDER BY table_name, column_name: the universe of
\* (table, column) pairs in that order; the ones that exist are selected.
JsonbColumnOrder ==
    <<<<"audit-log", "metadata">>, <<STORAGE_TABLE, "data">>,
      <<"product", "metadata">>, <<"product_sales_channel", "metadata">>,
      <<"region", "extra">>, <<"region", "metadata">>,
      <<"sales_channel", "metadata">>>>

\* data ->> 'gp_market_id' of a stored document
DataTag(data) ==
    IF data.t = "object" /\ "gp_market_id" \in DOMAIN data.v
       /\ data.v["gp_market_id"].t = "string"
    THEN data.v["gp_market_id"].v
    ELSE ""

tableExists(d, tableName) ==
    IF tableName = STORAGE_TABLE THEN d.storage.exists ELSE tableName \in DOMAIN d.ext

jsonbColumns(d) ==
    SelectSeq(JsonbColumnOrder,
              LAMBDA tc : IF tc[1] = STORAGE_TABLE THEN d.storage.exists
                          ELSE tc[1] \in DOMAIN d.ext /\ tc[2] \in d.ext[tc[1]].cols)

\* A predicate that asks for the attribute and not for its value.
TaggedRowsAnyMarket(d, tableName, columnName, marketId) ==
    {r \in d.ext[tableName].rows : r.tag[columnName] # ""}

\* WHERE column ->> 'gp_market_id' = $1
TaggedRows(d, tableName, columnName, marketId) ==
    {r \in d.ext[tableName].rows : r.tag[columnName] = marketId}

\* WHERE sales_channel_id = ANY($1::text[])
ChannelRows(d, tableName, salesChannelIds) ==
    {r \in d.ext[tableName].rows : r.scid \in salesChannelIds}

\* A WHERE clause without the market.
StoredRowsOfInstance(d, instanceId, marketId) ==
    {r \in d.storage.rows : r.instance_id = instanceId}

\* WHERE instance_id = $1 AND market_id = $2
StoredRowsOf(d, instanceId, marketId) ==
    {r \in d.storage.rows : r.instance_id = instanceId /\ r.market_id = marketId}

getScopedSalesChannelIds(d, marketId) ==
    IF ~tableExists(d, "sales_channel") THEN {}
    ELSE {r.id : r \in {x \in TaggedRows(d, "sales_channel", "metadata", marketId) :
                            x.id # ""}}

\* The (table, column) pairs discovery runs its count query on.
DiscoveryCandidates(d) ==
    SelectSeq(jsonbColumns(d), LAMBDA tc : tc[1] # STORAGE_TABLE)

\* quoteIdent throws on the first unsafe identifier discovery meets.
discoveryThrows(d) ==
    \E i \in 1..Len(DiscoveryCandidates(d)) :
        \/ ~SafeIdent(DiscoveryCandidates(d)[i][1])
        \/ ~SafeIdent(DiscoveryCandidates(d)[i][2])

discoverMetadataScopedTables(d, marketId) ==
    LET found == SelectSeq(DiscoveryCandidates(d),
                           LAMBDA tc : TaggedRows(d, tc[1], tc[2], marketId) # {})
    IN [i \in 1..Len(found) |->
            [tableName |-> found[i][1], columnName |-> found[i][2]]]

\* Insertion-ordered Set: the elements of seq without later repetitions.
RECURSIVE Dedup(_)
Dedup(seq) ==
    IF seq = <<>> THEN <<>>
    ELSE LET front == Dedup(SubSeq(seq, 1, Len(seq) - 1))
             last == seq[Len(seq)]
         IN IF last \in SeqToSet(front) THEN front ELSE Append(front, last)

\* An order that takes the metadata-scoped tables first and leaves
\* sales_channel where discovery found it.
buildScopedDeleteOrderMetadataFirst(metadataTables, assignmentTables) ==
    Dedup(metadataTables \o assignmentTables)

buildScopedDeleteOrder(metadataTables, assignmentTables) ==
    LET all == Dedup(assignmentTables \o metadataTables)
        withoutSalesChannel == SelectSeq(all, LAMBDA t : t # "sales_channel")
    IN IF "sales_channel" \in SeqToSet(all)
       THEN Append(withoutSalesChannel, "sales_channel")
       ELSE withoutSalesChannel

\* The assignment tables deleteScopedDbConfig collects.
existingAssignmentTables(d, salesChannelIds) ==
    IF salesChannelIds = {} THEN <<>>
    ELSE SelectSeq(CHANNEL_ASSIGNMENT_TABLES, LAMBDA t : tableExists(d, t))

(***************************************************************************)
(* Command line, environment and standard input.                           *)
(***************************************************************************)
Operations == {"fill", "overwrite", "export", "delete"}

\* Instance ids, spelled out for the production-name regular expression.
InstDev == <<"g","p","-","d","e","v">>

InstProd == <<"g","p","-","P","R","O","D">>

InstProduction == <<"P","r","o","d","u","c","t","i","o","n">>

InstProdPrefix == <<"p","r","o","d","-","e","u">>

ToLower(c) ==
    CASE c = "P" -> "p" [] c = "R" -> "r" [] c = "O" -> "o" [] c = "D" -> "d"
      [] c = "U" -> "u" [] c = "C" -> "c" [] c = "T" -> "t" [] c = "I" -> "i"
      [] c = "N" -> "n" [] OTHER -> c

EndsWithIgnoreCase(chars, suffix) ==
    /\ Len(chars) >= Len(suffix)
    /\ \A i \in 1..Len(suffix) :
           ToLower(chars[Len(chars) - Len(suffix) + i]) = suffix[i]

\* The same test without the i flag.
isProdLikeCaseSensitive(instanceId) ==
    LET EndsWith(chars, suffix) ==
            /\ Len(chars) >= Len(suffix)
            /\ \A i \in 1..Len(suffix) : chars[Len(chars) - Len(suffix) + i] = suffix[i]
    IN \/ EndsWith(instanceId, <<"p","r","o","d">>)
       \/ EndsWith(instanceId, <<"p","r","o","d","u","c","t","i","o","n">>)

\* /(prod|production)$/i.test(args.instanceId)
isProdLike(instanceId) ==
    \/ EndsWithIgnoreCase(instanceId, <<"p","r","o","d">>)
    \/ EndsWithIgnoreCase(instanceId, <<"p","r","o","d","u","c","t","i","o","n">>)

\* ensureSafeDestructiveOperation throws
prodBlocked(a, e) ==
    /\ a.operation \in {"overwrite", "delete"}
    /\ isProdLike(a.instanceId)
    /\ e.GP_ALLOW_PROD_MUTATIONS # "true"

\* A confirm-flag check that knows delete only.
confirmFlagsMissingDeleteOnly(a) ==
    a.operation = "delete" /\ ~(a.confirm \/ a.force)

\* requireConfirmFlags throws
confirmFlagsMissing(a) ==
    \/ a.operation = "overwrite" /\ ~(a.confirm \/ a.force)
    \/ a.operation = "delete" /\ ~(a.confirm \/ a.force)

\* A confirmation step that never asks.
promptsForDeleteNever(a) == FALSE

\* requireInteractiveDeleteConfirmation reaches readline
promptsForDelete(a) == a.operation = "delete" /\ ~a.force

MarketChars(marketId) ==
    CASE marketId = "m1" -> <<"m","1">>
      [] marketId = "m2" -> <<"m","2">>
      [] OTHER -> <<>>

\* String.prototype.trim on a line of characters
RECURSIVE Trim(_)
Trim(chars) ==
    IF chars = <<>> THEN chars
    ELSE IF chars[1] = " " THEN Trim(Tail(chars))
    ELSE IF chars[Len(chars)] = " " THEN Trim(SubSeq(chars, 1, Len(chars) - 1))
    ELSE chars

\* What stdin delivers to the prompt: a line, or end of input (no line at all).
EndOfInput == <<"EOF">>

StdinLines == {<<"m","1">>, <<" ","m","1"," ">>, <<"m","2">>, <<>>, EndOfInput}

(***************************************************************************)
(* The configuration tree on disk and the input loader.                    *)
(***************************************************************************)
NoFile == [kind |-> "absent", doc |-> JNull]

YamlFile(doc) == [kind |-> "object", doc |-> doc]

\* a YAML root that is an array or a scalar
NotObjectFile == [kind |-> "not_object", doc |-> JArr(<<>>)]

\* a YAML object its JSON Schema rejects
InvalidFile == [kind |-> "invalid", doc |-> JObj(EmptyFcn)]

MarketYaml == MkObj([market_id |-> JStr("m1"), name |-> JStr("n")])

\* a market.yaml whose name is left empty
MarketYamlSparse == MkObj([market_id |-> JStr("m1"), name |-> JStr("")])

\* a market.yaml that names another market
MarketYamlOther == MkObj([market_id |-> JStr("m2"), name |-> JStr("n")])

ProductA == MkObj([product_id |-> JStr("p1"), name |-> JStr("A")])

ProductADescribed ==
    MkObj([product_id |-> JStr("p1"), name |-> JStr("A"), description |-> JStr("new")])

ProductB == MkObj([product_id |-> JStr("p2"), name |-> JStr("B")])

ProductsYaml == MkObj([products |-> JArr(<<ProductADescribed, ProductB>>)])

ProductsYamlSmall == MkObj([products |-> JArr(<<ProductA>>)])

\* a vendor products.yaml whose vendor_id is its directory name, and one whose
\* vendor_id names another vendor
VendorYaml(vendorId) == MkObj([vendor_id |-> JStr(vendorId), products |-> JArr(<<ProductA>>)])

VendorDir(name, file) == [name |-> name, isDirectory |-> TRUE, file |-> file]

PlainEntry(name) == [name |-> name, isDirectory |-> FALSE, file |-> NoFile]

FullTree ==
    [instance |-> "ok", schemas |-> TRUE,
     market |-> YamlFile(MarketYaml), products |-> YamlFile(ProductsYaml),
     vendorsDir |-> TRUE,
     vendors |-> <<VendorDir("v1", YamlFile(VendorYaml("v1"))),
                   VendorDir("v2", YamlFile(VendorYaml("v9"))),
                   VendorDir("v3", NoFile),
                   PlainEntry("README")>>]

SparseTree ==
    [instance |-> "ok", schemas |-> TRUE,
     market |-> YamlFile(MarketYamlSparse), products |-> NoFile,
     vendorsDir |-> FALSE, vendors |-> <<>>]

OtherMarketTree ==
    [instance |-> "ok", schemas |-> TRUE,
     market |-> YamlFile(MarketYamlOther), products |-> YamlFile(ProductsYamlSmall),
     vendorsDir |-> TRUE, vendors |-> <<VendorDir("v1", YamlFile(VendorYaml("v1")))>>]

EmptyTree ==
    [instance |-> "missing", schemas |-> FALSE,
     market |-> NoFile, products |-> NoFile, vendorsDir |-> FALSE, vendors |-> <<>>]

BrokenTrees ==
    {[FullTree EXCEPT !.instance = "wrong_instance"],
     [FullTree EXCEPT !.instance = "market_unlisted"],
     [FullTree EXCEPT !.schemas = FALSE],
     [FullTree EXCEPT !.market = NotObjectFile],
     [FullTree EXCEPT !.products = InvalidFile]}

FileTrees == {FullTree, SparseTree, OtherMarketTree, EmptyTree} \cup BrokenTrees

\* readYamlObject or validateAgainstSchema throws on this file
fileThrows(file) == file.kind \in {"not_object", "invalid"}

\* assertInstanceAndMarketExist throws
instanceCheckThrows(tree) == tree.instance # "ok"

\* The vendor directory entries the loop of loadInputConfig gets to.
vendorEntries(tree) == IF tree.vendorsDir THEN tree.vendors ELSE <<>>

loadThrows(tree) ==
    \/ instanceCheckThrows(tree)
    \/ ~tree.schemas
    \/ fileThrows(tree.market)
    \/ fileThrows(tree.products)
    \/ \E i \in 1..Len(vendorEntries(tree)) :
           /\ vendorEntries(tree)[i].isDirectory
           /\ fileThrows(vendorEntries(tree)[i].file)

NoInput == [market |-> Absent, products |-> Absent, vendors |-> <<>>, warnings |-> <<>>]

\* The InputConfig loadInputConfig returns when nothing throws.  vendors keeps
\* the order of the directory listing and is keyed by the directory name.
loadInputConfig(tree) ==
    LET loadedDirs == SelectSeq(vendorEntries(tree),
                                LAMBDA e : e.isDirectory /\ e.file.kind = "object")
        emptyDirs == SelectSeq(vendorEntries(tree),
                               LAMBDA e : e.isDirectory /\ e.file.kind = "absent")
    IN [market |-> IF tree.market.kind = "object" THEN tree.market.doc ELSE Absent,
        products |-> IF tree.products.kind = "object" THEN tree.products.doc ELSE Absent,
        vendors |-> [i \in 1..Len(loadedDirs) |->
                        [vendorId |-> loadedDirs[i].name, data |-> loadedDirs[i].file.doc]],
        warnings |->
            (IF tree.market.kind = "absent" THEN <<<<"Missing file", "market.yaml">>>> ELSE <<>>)
            \o (IF tree.products.kind = "absent"
                THEN <<<<"Missing file", "products.yaml">>>> ELSE <<>>)
            \o [i \in 1..Len(emptyDirs) |-> <<"Missing file", emptyDirs[i].name>>]]

\* Incoming rows that leave the vendors out.
makeIncomingRowsWithoutVendors(input) ==
    (IF input.market # Absent
     THEN <<[section |-> "market", record_key |-> "market", data |-> input.market]>>
     ELSE <<>>)
    \o (IF input.products # Absent
        THEN <<[section |-> "products", record_key |-> "products", data |-> input.products]>>
        ELSE <<>>)

makeIncomingRows(input) ==
    (IF input.market # Absent
     THEN <<[section |-> "market", record_key |-> "market", data |-> input.market]>>
     ELSE <<>>)
    \o (IF input.products # Absent
        THEN <<[section |-> "products", record_key |-> "products", data |-> input.products]>>
        ELSE <<>>)
    \o [i \in 1..Len(input.vendors) |->
           [section |-> "vendor_products", record_key |-> input.vendors[i].vendorId,
            data |-> input.vendors[i].data]]

(***************************************************************************)
(* Database states a run may start from.                                   *)
(***************************************************************************)
ExtRow(id, scid, tag) == [id |-> id, scid |-> scid, tag |-> tag]

StoredRow(instanceId, marketId, section, recordKey, data) ==
    [instance_id |-> instanceId, market_id |-> marketId, section |-> section,
     record_key |-> recordKey, data |-> data]

PopulatedStorage ==
    {StoredRow(InstDev, "m1", "market", "market", MkObj([market_id |-> JStr("m1")])),
     StoredRow(InstDev, "m1", "products", "products", ProductsYamlSmall),
     StoredRow(InstDev, "m1", "vendor_products", "v1", VendorYaml("v1")),
     StoredRow(InstDev, "m1", "vendor_products", "v7", VendorYaml("v7")),
     StoredRow(InstDev, "m2", "market", "market", MarketYamlOther),
     StoredRow(InstProd, "m1", "market", "market", MarketYaml)}

StorageOptions ==
    {[exists |-> FALSE, rows |-> {}],
     [exists |-> TRUE, rows |-> {}],
     [exists |-> TRUE, rows |-> PopulatedStorage]}

SalesChannelOptions ==
    {{},
     {<<"sales_channel",
        [cols |-> {"metadata"},
         rows |-> {ExtRow("sc1", "", [metadata |-> "m1"]),
                   ExtRow("sc2", "", [metadata |-> "m2"])}]>>},
     {<<"sales_channel",
        [cols |-> {"metadata"},
         rows |-> {ExtRow("sc2", "", [metadata |-> "m2"])}]>>}}

AssignmentOptions ==
    {{},
     {<<"product_sales_channel",
        [cols |-> {"metadata"},
         rows |-> {ExtRow("l1", "sc1", [metadata |-> ""]),
                   ExtRow("l2", "sc2", [metadata |-> ""]),
                   ExtRow("l3", "sc2", [metadata |-> "m1"])}]>>}}

ProductOptions ==
    {{},
     {<<"product",
        [cols |-> {"metadata"},
         rows |-> {ExtRow("p1", "", [metadata |-> "m1"]),
                   ExtRow("p2", "", [metadata |-> "m2"]),
                   ExtRow("p3", "", [metadata |-> ""])}]>>},
     {<<"product",
        [cols |-> {"metadata"},
         rows |-> {ExtRow("p2", "", [metadata |-> "m2"])}]>>}}

\* a table with two JSONB columns, tagged through one or the other
RegionOptions ==
    {{},
     {<<"region",
        [cols |-> {"extra", "metadata"},
         rows |-> {ExtRow("r1", "", [extra |-> "", metadata |-> "m1"]),
                   ExtRow("r2", "", [extra |-> "m1", metadata |-> ""]),
                   ExtRow("r3", "", [extra |-> "m2", metadata |-> "m2"])}]>>},
     {<<"region",
        [cols |-> {"extra", "metadata"},
         rows |-> {ExtRow("r4", "", [extra |-> "", metadata |-> "m1"])}]>>}}

\* a table whose name is no safe SQL identifier
AuditOptions ==
    {{},
     {<<"audit-log",
        [cols |-> {"metadata"},
         rows |-> {ExtRow("a1", "", [metadata |-> "m2"])}]>>}}

ExtOf(pairs) == [n \in {q[1] : q \in pairs} |-> (CHOOSE q \in pairs : q[1] = n)[2]]

Databases ==
    {[storage |-> st, ext |-> ExtOf(sc \cup asg \cup pr \cup rg \cup au)] :
        st \in StorageOptions, sc \in SalesChannelOptions, asg \in AssignmentOptions,
        pr \in ProductOptions, rg \in RegionOptions, au \in AuditOptions}

\* The database of scenario 5: stored rows for the market and tagged rows.
SampleDatabase ==
    [storage |-> [exists |-> TRUE, rows |-> PopulatedStorage],
     ext |-> ExtOf(UNION {CHOOSE o \in SalesChannelOptions :
                              \E q \in o : Cardinality(q[2].rows) = 2,
                          CHOOSE o \in AssignmentOptions : o # {},
                          CHOOSE o \in ProductOptions :
                              \E q \in o : Cardinality(q[2].rows) = 3})]

(***************************************************************************)
(* State.                                                                  *)
(***************************************************************************)
VARIABLES
    mPc, mD, mI, mOut1, mOut2,
    cPc, cInput, cExisting, cTx, cIdx, cDb, cFirst,
    sPc, sIdx, catalog, entities, entitiesPre, counts, warnings, calls, fixtureToMedusaMap,
    history,
    mcpPc, mcpArgs, fetched, mcpResult,
    args, env, stdin, tree, runNo, dryReport,
    pc, failed, outcome,
    db, tx, dbPre,
    input, existing, plan, idx, report,
    log, removed, snapshot, exportFile

mergeVars == <<mPc, mD, mI, mOut1, mOut2>>

\* two fill transactions running side by side
concVars == <<cPc, cInput, cExisting, cTx, cIdx, cDb, cFirst>>

\* the catalog synchronisation script
syncVars == <<sPc, sIdx, catalog, entities, entitiesPre, counts, warnings, calls,
              fixtureToMedusaMap, history>>

\* what a run is started with
inputVars == <<args, env, stdin, tree, runNo, dryReport>>

runVars == <<pc, failed, outcome, db, tx, dbPre, input, existing, plan, idx, report,
             log, removed, snapshot, exportFile>>

cliVars == <<inputVars, runVars>>

\* the variables a run of the command line leaves alone
\* the MCP server of the Medusa HTTP tools
mcpVars == <<mcpPc, mcpArgs, fetched, mcpResult>>

sideVars == <<mergeVars, concVars, syncVars, mcpVars>>

vars == <<mergeVars, concVars, syncVars, mcpVars, cliVars>>

NoResult == [value |-> JNull, changed |-> FALSE]

NoPlan ==
    [metadataScoped |-> <<>>, salesChannelIds |-> {}, assignmentTables |-> <<>>,
     deleteOrder |-> <<>>]

NewReport ==
    [inserted |-> 0, updated |-> 0, skipped |-> 0, deleted |-> 0,
     warnings |-> <<>>, exported_tables |-> {}]

NoSnapshot == [t \in {} |-> {}]

NoExportFile ==
    [written |-> FALSE, market |-> JNull, products |-> JNull, vendors |-> EmptyFcn,
     db_snapshot |-> NoSnapshot]

EmptyDatabase == [storage |-> [exists |-> FALSE, rows |-> {}], ext |-> ExtOf({})]

\* The merge engine at rest (while the command line is exercised).
MergeIdle ==
    /\ mPc = "idle"
    /\ mD = JNull
    /\ mI = JNull
    /\ mOut1 = NoResult
    /\ mOut2 = NoResult

\* No concurrent transactions (while one run or the merge engine is exercised).
ConcIdle ==
    /\ cPc = [p \in {} |-> "idle"]
    /\ cInput = [p \in {} |-> NoInput]
    /\ cExisting = [p \in {} |-> {}]
    /\ cTx = [p \in {} |-> {}]
    /\ cIdx = [p \in {} |-> 0]
    /\ cDb = {}
    /\ cFirst = {}

NoCounts == [created |-> 0, updated |-> 0, skipped |-> 0]

NoCatalog == [market_id |-> "", categories |-> <<>>, collections |-> <<>>, products |-> <<>>]

\* The synchronisation script at rest (while the command line, the merge
\* engine or the concurrent fills are exercised).
SyncIdle ==
    /\ sPc = "idle"
    /\ sIdx = 0
    /\ catalog = NoCatalog
    /\ entities = [k \in {"category", "collection", "product"} |-> {}]
    /\ entitiesPre = entities
    /\ counts = [k \in {"category", "collection", "product"} |-> NoCounts]
    /\ warnings = <<>>
    /\ calls = <<>>
    /\ fixtureToMedusaMap = [k \in {"category", "collection"} |-> EmptyFcn]
    /\ history = <<>>

NoRequest == [scope |-> "", path |-> <<>>, method |-> "", body |-> ""]

NoMcpResult == [kind |-> "none"]

McpIdle ==
    /\ mcpPc = "idle"
    /\ mcpArgs = NoRequest
    /\ fetched = <<>>
    /\ mcpResult = NoMcpResult

\* The state of a run before runCli's first statement, on database d.
RunStart(d) ==
    /\ failed = FALSE
    /\ outcome = "running"
    /\ db = d
    /\ tx = d
    /\ dbPre = d
    /\ input = NoInput
    /\ existing = {}
    /\ plan = NoPlan
    /\ idx = 0
    /\ report = NewReport
    /\ dryReport = NewReport
    /\ log = <<>>
    /\ removed = {}
    /\ snapshot = NoSnapshot
    /\ exportFile = NoExportFile

\* The command line at rest (while the merge engine is exercised).
CliIdle ==
    /\ args = [operation |-> "fill", instanceId |-> InstDev, marketId |-> "m1",
               confirm |-> FALSE, force |-> FALSE, dryRun |-> FALSE, dbUrl |-> FALSE]
    /\ env = [GP_ALLOW_PROD_MUTATIONS |-> "", DATABASE_URL |-> FALSE]
    /\ stdin = EndOfInput
    /\ tree = EmptyTree
    /\ runNo = 1
    /\ RunStart(EmptyDatabase)
    /\ pc = "idle"

(***************************************************************************)
(* One run of the command line: runCli and main.                           *)
(***************************************************************************)
incomingRows == makeIncomingRows(input)

\* An insert into a table without the primary key.
upsertRowAppending(d, instanceId, marketId, section, recordKey, data) ==
    [d EXCEPT !.storage.rows =
        @ \cup {StoredRow(instanceId, marketId, section, recordKey, clone(data))}]

\* INSERT ... ON CONFLICT (primary key) DO UPDATE SET data = EXCLUDED.data;
\* the document travels as JSON.stringify(data).
upsertRow(d, instanceId, marketId, section, recordKey, data) ==
    [d EXCEPT !.storage.rows =
        {r \in @ : ~(/\ r.instance_id = instanceId
                     /\ r.market_id = marketId
                     /\ r.section = section
                     /\ r.record_key = recordKey)}
        \cup {StoredRow(instanceId, marketId, section, recordKey, clone(data))}]

deleteFrom(d, tableName, rows) ==
    [d EXCEPT !.ext[tableName].rows = @ \ rows]

\* A gate that lets every run through.
GateOpen ==
    /\ pc = "gate"
    /\ pc' = "confirm"
    /\ UNCHANGED <<sideVars, inputVars, failed, outcome, db, tx, dbPre, input, existing,
                   plan, idx, report, log, removed, snapshot, exportFile>>

\* ensureSafeDestructiveOperation(args); requireConfirmFlags(args)
Gate ==
    /\ pc = "gate"
    /\ IF prodBlocked(args, env) \/ confirmFlagsMissing(args)
       THEN pc' = "exit" /\ failed' = TRUE
       ELSE pc' = "confirm" /\ failed' = failed
    /\ UNCHANGED <<sideVars, inputVars, outcome, db, tx, dbPre, input, existing, plan,
                   idx, report, log, removed, snapshot, exportFile>>

\* await requireInteractiveDeleteConfirmation(args): the question's callback
\* runs only when a line arrives; at end of input the promise stays pending
\* and the process runs out of work.
Confirm ==
    /\ pc = "confirm"
    /\ IF ~promptsForDelete(args)
       THEN /\ pc' = "dburl"
            /\ UNCHANGED <<failed, outcome, log>>
       ELSE IF ~args.confirm
       THEN /\ pc' = "exit"
            /\ failed' = TRUE
            /\ UNCHANGED <<outcome, log>>
       ELSE /\ log' = Append(log, <<"prompt", args.marketId>>)
            /\ IF stdin = EndOfInput
               THEN pc' = "ended" /\ outcome' = "silent" /\ failed' = failed
               ELSE IF Trim(stdin) # MarketChars(args.marketId)
               THEN pc' = "exit" /\ failed' = TRUE /\ outcome' = outcome
               ELSE pc' = "dburl" /\ failed' = failed /\ outcome' = outcome
    /\ UNCHANGED <<sideVars, inputVars, db, tx, dbPre, input, existing, plan, idx,
                   report, removed, snapshot, exportFile>>

\* A runCli that loads the input configuration for every operation.
ResolveDbUrlThenLoad ==
    /\ pc = "dburl"
    /\ IF ~(args.dbUrl \/ env.DATABASE_URL)
       THEN pc' = "exit" /\ failed' = TRUE /\ log' = log
       ELSE /\ pc' = "load"
            /\ failed' = failed
            /\ log' = Append(log, <<"pool", "created">>)
    /\ UNCHANGED <<sideVars, inputVars, outcome, db, tx, dbPre, input, existing, plan,
                   idx, report, removed, snapshot, exportFile>>

\* dbUrl = args.dbUrl || process.env.DATABASE_URL; new Pool(...)
ResolveDbUrl ==
    /\ pc = "dburl"
    /\ IF ~(args.dbUrl \/ env.DATABASE_URL)
       THEN pc' = "exit" /\ failed' = TRUE /\ log' = log
       ELSE /\ pc' = IF args.operation = "export" THEN "connect" ELSE "load"
            /\ failed' = failed
            /\ log' = Append(log, <<"pool", "created">>)
    /\ UNCHANGED <<sideVars, inputVars, outcome, db, tx, dbPre, input, existing, plan,
                   idx, report, removed, snapshot, exportFile>>

\* input = loadInputConfig(args, repoRoot); report.warnings.push(...input.warnings)
Load ==
    /\ pc = "load"
    /\ log' = Append(log, <<"read", "config">>)
    /\ IF loadThrows(tree)
       THEN pc' = "pool_end" /\ failed' = TRUE /\ UNCHANGED <<input, report>>
       ELSE /\ pc' = "connect"
            /\ failed' = failed
            /\ input' = loadInputConfig(tree)
            /\ report' = [report EXCEPT !.warnings = @ \o loadInputConfig(tree).warnings]
    /\ UNCHANGED <<sideVars, inputVars, outcome, db, tx, dbPre, existing, plan, idx,
                   removed, snapshot, exportFile>>

\* client = await pool.connect()
Connect ==
    /\ pc = "connect"
    /\ pc' = "begin"
    /\ log' = Append(log, <<"connect", "client">>)
    /\ UNCHANGED <<sideVars, inputVars, failed, outcome, db, tx, dbPre, input, existing,
                   plan, idx, report, removed, snapshot, exportFile>>

\* pool.connect() rejects: no client, no transaction
ConnectFail ==
    /\ pc = "connect"
    /\ pc' = "pool_end"
    /\ failed' = TRUE
    /\ UNCHANGED <<sideVars, inputVars, outcome, db, tx, dbPre, input, existing, plan,
                   idx, report, log, removed, snapshot, exportFile>>

\* await client.query("BEGIN")
Begin ==
    /\ pc = "begin"
    /\ pc' = "ensure"
    /\ tx' = db
    /\ log' = Append(log, <<"BEGIN", "tx">>)
    /\ UNCHANGED <<sideVars, inputVars, failed, outcome, db, dbPre, input, existing, plan,
                   idx, report, removed, snapshot, exportFile>>

\* CREATE TABLE IF NOT EXISTS gp_market_runtime_config (...)
ensureStorageTable ==
    /\ pc = "ensure"
    /\ tx' = [tx EXCEPT !.storage.exists = TRUE]
    /\ log' = Append(log, <<"DDL", STORAGE_TABLE>>)
    /\ pc' = CASE args.operation = "fill" -> "fill_select"
               [] args.operation = "export" -> "export_rows"
               [] OTHER -> "stored"
    /\ UNCHANGED <<sideVars, inputVars, failed, outcome, db, dbPre, input, existing, plan,
                   idx, report, removed, snapshot, exportFile>>

\* existingRows = await getExistingRows(...) at the head of executeFill
fillSelect ==
    /\ pc = "fill_select"
    /\ existing' = StoredRowsOf(tx, args.instanceId, args.marketId)
    /\ idx' = 1
    /\ pc' = IF incomingRows = <<>> THEN "commit" ELSE "fill_row"
    /\ UNCHANGED <<sideVars, inputVars, failed, outcome, db, tx, dbPre, input, plan,
                   report, log, removed, snapshot, exportFile>>

\* An existingMap in which no key is found.
existingForNone(incoming) == {}

\* The row of existingMap under the incoming row's `section:record_key`.
existingFor(incoming) ==
    {r \in existing : r.section = incoming.section /\ r.record_key = incoming.record_key}

\* One turn of executeFill's loop over the incoming rows.
executeFill ==
    /\ pc = "fill_row"
    /\ LET incoming == incomingRows[idx]
           hits == existingFor(incoming)
           merged == mergeFill((CHOOSE r \in hits : TRUE).data, incoming.data)
           written == IF hits = {} THEN incoming.data ELSE merged.value
           writes == hits = {} \/ merged.changed
       IN /\ report' = IF hits = {} THEN [report EXCEPT !.inserted = @ + 1]
                       ELSE IF merged.changed THEN [report EXCEPT !.updated = @ + 1]
                       ELSE [report EXCEPT !.skipped = @ + 1]
          /\ IF writes /\ ~args.dryRun
             THEN /\ tx' = upsertRow(tx, args.instanceId, args.marketId,
                                     incoming.section, incoming.record_key, written)
                  /\ log' = Append(log, <<"UPSERT", incoming.record_key>>)
             ELSE UNCHANGED <<tx, log>>
    /\ idx' = idx + 1
    /\ pc' = IF idx = Len(incomingRows) THEN "commit" ELSE "fill_row"
    /\ UNCHANGED <<sideVars, inputVars, failed, outcome, db, dbPre, input, existing, plan,
                   removed, snapshot, exportFile>>

\* existingRows = await getExistingRows(...); report.deleted += existingRows.length
\* (the head of executeOverwrite and of executeDelete)
countStored ==
    /\ pc = "stored"
    /\ existing' = StoredRowsOf(tx, args.instanceId, args.marketId)
    /\ report' = [report EXCEPT !.deleted =
                      @ + Cardinality(StoredRowsOf(tx, args.instanceId, args.marketId))]
    /\ pc' = IF args.dryRun THEN "discover" ELSE "delete_stored"
    /\ UNCHANGED <<sideVars, inputVars, failed, outcome, db, tx, dbPre, input, plan, idx,
                   log, removed, snapshot, exportFile>>

\* An overwrite that writes its first incoming row before it clears the
\* stored rows.
deleteStoredAfterInsert ==
    /\ pc = "delete_stored"
    /\ LET gone == StoredRowsOf(tx, args.instanceId, args.marketId)
       IN /\ tx' = [tx EXCEPT !.storage.rows = @ \ gone]
          /\ removed' = removed \cup {<<STORAGE_TABLE, r>> : r \in gone}
    /\ log' = IF args.operation = "overwrite" /\ incomingRows # <<>>
              THEN log \o <<<<"UPSERT", incomingRows[1].record_key>>,
                            <<"DELETE", STORAGE_TABLE>>>>
              ELSE Append(log, <<"DELETE", STORAGE_TABLE>>)
    /\ pc' = "discover"
    /\ UNCHANGED <<sideVars, inputVars, failed, outcome, db, dbPre, input, existing, plan,
                   idx, report, snapshot, exportFile>>

\* DELETE FROM gp_market_runtime_config WHERE instance_id = $1 AND market_id = $2
deleteStored ==
    /\ pc = "delete_stored"
    /\ LET gone == StoredRowsOf(tx, args.instanceId, args.marketId)
       IN /\ tx' = [tx EXCEPT !.storage.rows = @ \ gone]
          /\ removed' = removed \cup {<<STORAGE_TABLE, r>> : r \in gone}
    /\ log' = Append(log, <<"DELETE", STORAGE_TABLE>>)
    /\ pc' = "discover"
    /\ UNCHANGED <<sideVars, inputVars, failed, outcome, db, dbPre, input, existing, plan,
                   idx, report, snapshot, exportFile>>

\* Where the cleanup of executeOverwrite / executeDelete continues.
afterCleanup ==
    IF args.operation = "overwrite" /\ incomingRows # <<>> THEN "insert" ELSE "commit"

\* The head of deleteScopedDbConfig: discovery, the sales-channel ids, the
\* assignment tables that exist, the delete order.
discoverScope ==
    /\ pc = "discover"
    /\ IF discoveryThrows(tx)
       THEN pc' = "rollback" /\ failed' = TRUE /\ UNCHANGED <<plan, idx>>
       ELSE LET metadataScoped == discoverMetadataScopedTables(tx, args.marketId)
                metadataTables == [i \in 1..Len(metadataScoped) |-> metadataScoped[i].tableName]
                salesChannelIds == getScopedSalesChannelIds(tx, args.marketId)
                assignmentTables == existingAssignmentTables(tx, salesChannelIds)
                deleteOrder == buildScopedDeleteOrder(metadataTables, assignmentTables)
            IN /\ plan' = [metadataScoped |-> metadataScoped,
                           salesChannelIds |-> salesChannelIds,
                           assignmentTables |-> assignmentTables,
                           deleteOrder |-> deleteOrder]
               /\ idx' = 1
               /\ failed' = failed
               /\ pc' = IF deleteOrder = <<>> THEN afterCleanup ELSE "delete_scoped"
    /\ UNCHANGED <<sideVars, inputVars, outcome, db, tx, dbPre, input, existing, report,
                   log, removed, snapshot, exportFile>>

\* The rows one turn of deleteScopedDbConfig's loop counts or deletes in
\* tableName: by sales channel for an assignment table, else by the column of
\* the first discovered entry of that table.
scopedRows(d, p, tableName, marketId) ==
    IF tableName \in SeqToSet(p.assignmentTables)
    THEN IF p.salesChannelIds = {} THEN {}
         ELSE ChannelRows(d, tableName, p.salesChannelIds)
    ELSE LET entries == {i \in 1..Len(p.metadataScoped) :
                             p.metadataScoped[i].tableName = tableName}
         IN IF entries = {} THEN {}
            ELSE LET first == CHOOSE i \in entries : \A j \in entries : i <= j
                 IN TaggedRows(d, tableName, p.metadataScoped[first].columnName, marketId)

\* A loop turn that counts nothing under dry-run.
deleteScopedDbConfigDryUncounted ==
    /\ pc = "delete_scoped"
    /\ LET tableName == plan.deleteOrder[idx]
           rows == scopedRows(tx, plan, tableName, args.marketId)
       IN IF args.dryRun
          THEN UNCHANGED <<tx, removed, log, report>>
          ELSE /\ report' = [report EXCEPT !.deleted = @ + Cardinality(rows)]
               /\ tx' = deleteFrom(tx, tableName, rows)
               /\ removed' = removed \cup {<<tableName, r>> : r \in rows}
               /\ log' = Append(log, <<"DELETE", tableName>>)
    /\ idx' = IF idx = Len(plan.deleteOrder) THEN 1 ELSE idx + 1
    /\ pc' = IF idx = Len(plan.deleteOrder) THEN afterCleanup ELSE "delete_scoped"
    /\ UNCHANGED <<sideVars, inputVars, failed, outcome, db, dbPre, input, existing, plan,
                   snapshot, exportFile>>

\* One turn of the loop over deleteOrder in deleteScopedDbConfig.
deleteScopedDbConfig ==
    /\ pc = "delete_scoped"
    /\ LET tableName == plan.deleteOrder[idx]
           rows == scopedRows(tx, plan, tableName, args.marketId)
       IN /\ report' = [report EXCEPT !.deleted = @ + Cardinality(rows)]
          /\ IF args.dryRun
             THEN UNCHANGED <<tx, removed, log>>
             ELSE /\ tx' = deleteFrom(tx, tableName, rows)
                  /\ removed' = removed \cup {<<tableName, r>> : r \in rows}
                  /\ log' = Append(log, <<"DELETE", tableName>>)
    /\ idx' = IF idx = Len(plan.deleteOrder) THEN 1 ELSE idx + 1
    /\ pc' = IF idx = Len(plan.deleteOrder) THEN afterCleanup ELSE "delete_scoped"
    /\ UNCHANGED <<sideVars, inputVars, failed, outcome, db, dbPre, input, existing, plan,
                   snapshot, exportFile>>

\* One turn of executeOverwrite's loop over the incoming rows.
insertIncoming ==
    /\ pc = "insert"
    /\ LET row == incomingRows[idx]
       IN /\ report' = [report EXCEPT !.inserted = @ + 1]
          /\ IF args.dryRun
             THEN UNCHANGED <<tx, log>>
             ELSE /\ tx' = upsertRow(tx, args.instanceId, args.marketId,
                                     row.section, row.record_key, row.data)
                  /\ log' = Append(log, <<"UPSERT", row.record_key>>)
    /\ idx' = idx + 1
    /\ pc' = IF idx = Len(incomingRows) THEN "commit" ELSE "insert"
    /\ UNCHANGED <<sideVars, inputVars, failed, outcome, db, dbPre, input, existing, plan,
                   removed, snapshot, exportFile>>

\* rows = await getExistingRows(...) at the head of executeExport
exportRows ==
    /\ pc = "export_rows"
    /\ existing' = StoredRowsOf(tx, args.instanceId, args.marketId)
    /\ pc' = "export_snapshot"
    /\ UNCHANGED <<sideVars, inputVars, failed, outcome, db, tx, dbPre, input, plan, idx,
                   report, log, removed, snapshot, exportFile>>

\* snapshot[tableName] after exportScopedDbSnapshot's two loops: a later
\* assignment to the same table name replaces an earlier one.
snapshotRows(d, metadataScoped, salesChannelIds, tableName, marketId) ==
    IF salesChannelIds # {} /\ tableName \in SeqToSet(CHANNEL_ASSIGNMENT_TABLES)
       /\ tableExists(d, tableName)
    THEN ChannelRows(d, tableName, salesChannelIds)
    ELSE LET entries == {i \in 1..Len(metadataScoped) :
                             metadataScoped[i].tableName = tableName}
             last == CHOOSE i \in entries : \A j \in entries : j <= i
         IN TaggedRows(d, tableName, metadataScoped[last].columnName, marketId)

\* scopedDb = await exportScopedDbSnapshot(client, args.marketId)
exportScopedDbSnapshot ==
    /\ pc = "export_snapshot"
    /\ IF discoveryThrows(tx)
       THEN pc' = "rollback" /\ failed' = TRUE /\ UNCHANGED <<snapshot, report>>
       ELSE LET metadataScoped == discoverMetadataScopedTables(tx, args.marketId)
                salesChannelIds == getScopedSalesChannelIds(tx, args.marketId)
                tableNames ==
                    {metadataScoped[i].tableName : i \in 1..Len(metadataScoped)}
                    \cup (IF salesChannelIds = {} THEN {}
                          ELSE {t \in SeqToSet(CHANNEL_ASSIGNMENT_TABLES) : tableExists(tx, t)})
            IN /\ snapshot' = [t \in tableNames |->
                                  snapshotRows(tx, metadataScoped, salesChannelIds, t,
                                               args.marketId)]
               /\ report' = [report EXCEPT !.exported_tables = tableNames]
               /\ failed' = failed
               /\ pc' = "export_write"
    /\ UNCHANGED <<sideVars, inputVars, outcome, db, tx, dbPre, input, existing, plan, idx,
                   log, removed, exportFile>>

\* The stored row's data, or an empty object when the row is absent.
exportedSectionOrEmpty(rows, section) ==
    LET hits == {r \in rows : r.section = section /\ r.record_key = section}
    IN IF hits = {} THEN JObj(EmptyFcn) ELSE (CHOOSE r \in hits : TRUE).data

\* rows.find(r => r.section === section && r.record_key === section)?.data ?? null
exportedSection(rows, section) ==
    LET hits == {r \in rows : r.section = section /\ r.record_key = section}
    IN IF hits = {} THEN JNull ELSE (CHOOSE r \in hits : TRUE).data

\* The tail of executeExport: the payload and, unless dry-run, the file.
executeExport ==
    /\ pc = "export_write"
    /\ LET vendorRows == {r \in existing : r.section = "vendor_products"}
       IN IF args.dryRun
          THEN /\ report' = [report EXCEPT !.skipped = Cardinality(existing)]
               /\ UNCHANGED <<exportFile, log>>
          ELSE /\ exportFile' =
                    [written |-> TRUE,
                     market |-> exportedSection(existing, "market"),
                     products |-> exportedSection(existing, "products"),
                     vendors |-> [k \in {r.record_key : r \in vendorRows} |->
                                     (CHOOSE r \in vendorRows : r.record_key = k).data],
                     db_snapshot |-> snapshot]
               /\ report' = [report EXCEPT !.inserted = Cardinality(existing)]
               /\ log' = Append(log, <<"write", "export">>)
    /\ pc' = "commit"
    /\ UNCHANGED <<sideVars, inputVars, failed, outcome, db, tx, dbPre, input, existing,
                   plan, idx, removed, snapshot>>

\* await client.query("COMMIT")
Commit ==
    /\ pc = "commit"
    /\ db' = tx
    /\ log' = Append(log, <<"COMMIT", "tx">>)
    /\ pc' = "release"
    /\ UNCHANGED <<sideVars, inputVars, failed, outcome, tx, dbPre, input, existing, plan,
                   idx, report, removed, snapshot, exportFile>>

\* The steps of withTransaction's try block that await a query (or the file
\* write) and so may throw.
ThrowingSteps ==
    {"begin", "ensure", "fill_select", "stored", "delete_stored", "discover",
     "delete_scoped", "export_rows", "export_snapshot", "commit"}
    \cup (IF args.dryRun THEN {} ELSE {"fill_row", "insert", "export_write"})

\* A rejected statement whose error is swallowed after the rollback.
QueryFailSwallowed ==
    /\ pc \in ThrowingSteps
    /\ pc' = "rollback"
    /\ UNCHANGED <<sideVars, inputVars, failed, outcome, db, tx, dbPre, input, existing,
                   plan, idx, report, log, removed, snapshot, exportFile>>

\* A rejected statement after which the client is not handed back.
QueryFailUnreleased ==
    /\ pc \in ThrowingSteps
    /\ pc' = "pool_end"
    /\ failed' = TRUE
    /\ UNCHANGED <<sideVars, inputVars, outcome, db, tx, dbPre, input, existing, plan,
                   idx, report, log, removed, snapshot, exportFile>>

\* A statement of the transaction is rejected: control passes to the catch
\* block of withTransaction and the statement has no effect.
QueryFail ==
    /\ pc \in ThrowingSteps
    /\ pc' = "rollback"
    /\ failed' = TRUE
    /\ UNCHANGED <<sideVars, inputVars, outcome, db, tx, dbPre, input, existing, plan,
                   idx, report, log, removed, snapshot, exportFile>>

\* A catch block that ends the transaction with COMMIT.
RollbackCommits ==
    /\ pc = "rollback"
    /\ db' = tx
    /\ log' = Append(log, <<"ROLLBACK", "tx">>)
    /\ pc' = "release"
    /\ UNCHANGED <<sideVars, inputVars, failed, outcome, tx, dbPre, input, existing, plan,
                   idx, report, removed, snapshot, exportFile>>

\* catch (error) { await client.query("ROLLBACK"); throw error; }
Rollback ==
    /\ pc = "rollback"
    /\ tx' = db
    /\ log' = Append(log, <<"ROLLBACK", "tx">>)
    /\ pc' = "release"
    /\ UNCHANGED <<sideVars, inputVars, failed, outcome, db, dbPre, input, existing, plan,
                   idx, report, removed, snapshot, exportFile>>

\* finally { client.release(); }
Release ==
    /\ pc = "release"
    /\ log' = Append(log, <<"release", "client">>)
    /\ pc' = "pool_end"
    /\ UNCHANGED <<sideVars, inputVars, failed, outcome, db, tx, dbPre, input, existing,
                   plan, idx, report, removed, snapshot, exportFile>>

\* finally { await pool.end(); }
PoolEnd ==
    /\ pc = "pool_end"
    /\ log' = Append(log, <<"pool", "ended">>)
    /\ pc' = "exit"
    /\ UNCHANGED <<sideVars, inputVars, failed, outcome, db, tx, dbPre, input, existing,
                   plan, idx, report, removed, snapshot, exportFile>>

\* main: the report on stdout, or the error on stderr and exit status 1
Exit ==
    /\ pc = "exit"
    /\ outcome' = IF failed THEN "error" ELSE "ok"
    /\ log' = Append(log, IF failed THEN <<"stderr", "error">> ELSE <<"stdout", "report">>)
    /\ pc' = "ended"
    /\ UNCHANGED <<sideVars, inputVars, failed, db, tx, dbPre, input, existing, plan, idx,
                   report, removed, snapshot, exportFile>>

\* Runs whose executors are exercised on every database and configuration tree.
ExecutorRuns ==
    /\ args \in [operation : Operations, instanceId : {InstDev}, marketId : {"m1"},
                 confirm : {TRUE}, force : BOOLEAN, dryRun : BOOLEAN, dbUrl : {TRUE}]
    /\ args.force => args.operation = "delete"
    /\ env = [GP_ALLOW_PROD_MUTATIONS |-> "", DATABASE_URL |-> FALSE]
    /\ stdin = <<"m", "1">>
    /\ tree \in FileTrees
    /\ args.operation = "export" => tree \in {FullTree, EmptyTree}
    /\ \E d \in Databases : RunStart(d)

\* Runs whose flags, instance name, environment and prompt answer are exercised.
GateRuns ==
    /\ args \in [operation : Operations,
                 instanceId : {InstDev, InstProd, InstProduction, InstProdPrefix},
                 marketId : {"m1"}, confirm : BOOLEAN, force : BOOLEAN,
                 dryRun : BOOLEAN, dbUrl : BOOLEAN]
    /\ env \in [GP_ALLOW_PROD_MUTATIONS : {"", "true", "TRUE"}, DATABASE_URL : BOOLEAN]
    /\ stdin \in StdinLines
    /\ ~promptsForDelete(args) => stdin = EndOfInput
    /\ tree = FullTree
    /\ RunStart(SampleDatabase)

Init ==
    /\ MergeIdle
    /\ ConcIdle
    /\ SyncIdle
    /\ McpIdle
    /\ pc = "gate"
    /\ runNo = 1
    /\ ExecutorRuns \/ GateRuns

Next ==
    \/ Gate
    \/ Confirm
    \/ ResolveDbUrl
    \/ Load
    \/ Connect
    \/ ConnectFail
    \/ Begin
    \/ ensureStorageTable
    \/ fillSelect
    \/ executeFill
    \/ countStored
    \/ deleteStored
    \/ discoverScope
    \/ deleteScopedDbConfig
    \/ insertIncoming
    \/ exportRows
    \/ exportScopedDbSnapshot
    \/ executeExport
    \/ Commit
    \/ QueryFail
    \/ Rollback
    \/ Release
    \/ PoolEnd
    \/ Exit

Spec == Init /\ [][Next]_vars

(***************************************************************************)
(* The same fill command run again on the database the previous run left:  *)
(* main is entered once per invocation of the command.                     *)
(***************************************************************************)
MaxRuns == 2

\* A further invocation of the same command line: a new process, so every
\* piece of run state starts afresh; the database is what the last run left.
RunAgain ==
    /\ pc = "ended"
    /\ outcome = "ok"
    /\ runNo < MaxRuns
    /\ runNo' = runNo + 1
    /\ pc' = "gate"
    /\ failed' = FALSE
    /\ outcome' = "running"
    /\ tx' = db
    /\ dbPre' = db
    /\ input' = NoInput
    /\ existing' = {}
    /\ plan' = NoPlan
    /\ idx' = 0
    /\ report' = NewReport
    /\ log' = <<>>
    /\ removed' = {}
    /\ snapshot' = NoSnapshot
    /\ exportFile' = NoExportFile
    /\ UNCHANGED <<sideVars, args, env, stdin, tree, dryReport, db>>

\* Fill runs, not dry, on every database and every tree that loads.
InitRerun ==
    /\ MergeIdle
    /\ ConcIdle
    /\ SyncIdle
    /\ McpIdle
    /\ pc = "gate"
    /\ runNo = 1
    /\ args = [operation |-> "fill", instanceId |-> InstDev, marketId |-> "m1",
               confirm |-> FALSE, force |-> FALSE, dryRun |-> FALSE, dbUrl |-> TRUE]
    /\ env = [GP_ALLOW_PROD_MUTATIONS |-> "", DATABASE_URL |-> FALSE]
    /\ stdin = EndOfInput
    /\ tree \in {t \in FileTrees : ~loadThrows(t)}
    /\ \E d \in Databases : RunStart(d)

\* The steps of runs in which no statement is rejected.
NextRerun ==
    \/ Gate
    \/ Confirm
    \/ ResolveDbUrl
    \/ Load
    \/ Connect
    \/ Begin
    \/ ensureStorageTable
    \/ fillSelect
    \/ executeFill
    \/ Commit
    \/ Release
    \/ PoolEnd
    \/ Exit
    \/ RunAgain

SpecRerun == InitRerun /\ [][NextRerun]_vars

(***************************************************************************)
(* Two fill invocations at once on the same (instance_id, market_id), each *)
(* in its own transaction at the default isolation level (READ COMMITTED): *)
(* a SELECT sees what is committed when it runs, and an INSERT ... ON       *)
(* CONFLICT on a key another open transaction has written waits for that    *)
(* transaction to end, then updates the row it committed.                   *)
(***************************************************************************)
Procs == {1, 2}

ConcInstance == InstDev

ConcMarket == "m1"

SamePrimaryKey(a, b) ==
    /\ a.instance_id = b.instance_id
    /\ a.market_id = b.market_id
    /\ a.section = b.section
    /\ a.record_key = b.record_key

\* The rows of the table once the written rows take the place of the rows
\* with their primary keys.
Overlay(rows, written) ==
    {r \in rows : \A w \in written : ~SamePrimaryKey(r, w)} \cup written

concIncomingRows(p) == makeIncomingRows(cInput[p])

\* existingRows = await getExistingRows(...) in transaction p
concurrentSelect(p) ==
    /\ cPc[p] = "select"
    /\ cExisting' = [cExisting EXCEPT ![p] =
                        {r \in cDb : r.instance_id = ConcInstance /\ r.market_id = ConcMarket}]
    /\ cIdx' = [cIdx EXCEPT ![p] = 1]
    /\ cPc' = [cPc EXCEPT ![p] = IF concIncomingRows(p) = <<>> THEN "commit" ELSE "row"]
    /\ UNCHANGED <<mergeVars, syncVars, mcpVars, cliVars, cInput, cTx, cDb, cFirst>>

\* One turn of executeFill's loop in transaction p.  The upsert waits while
\* the other transaction holds an uncommitted write of the same key.
concurrentFillRow(p) ==
    /\ cPc[p] = "row"
    /\ LET incoming == concIncomingRows(p)[cIdx[p]]
           hits == {r \in cExisting[p] : /\ r.section = incoming.section
                                         /\ r.record_key = incoming.record_key}
           merged == mergeFill((CHOOSE r \in hits : TRUE).data, incoming.data)
           written == IF hits = {} THEN incoming.data ELSE merged.value
           writes == hits = {} \/ merged.changed
           row == StoredRow(ConcInstance, ConcMarket, incoming.section,
                            incoming.record_key, clone(written))
       IN IF writes
          THEN /\ \A q \in Procs \ {p} : \A w \in cTx[q] : ~SamePrimaryKey(w, row)
               /\ cTx' = [cTx EXCEPT ![p] = Overlay(@, {row})]
          ELSE cTx' = cTx
    /\ cIdx' = [cIdx EXCEPT ![p] = @ + 1]
    /\ cPc' = [cPc EXCEPT ![p] = IF cIdx[p] = Len(concIncomingRows(p)) THEN "commit" ELSE "row"]
    /\ UNCHANGED <<mergeVars, syncVars, mcpVars, cliVars, cInput, cExisting, cDb, cFirst>>

\* await client.query("COMMIT") in transaction p: its writes become the
\* committed rows and its row locks are released.
concurrentCommit(p) ==
    /\ cPc[p] = "commit"
    /\ cDb' = Overlay(cDb, cTx[p])
    /\ cFirst' = cFirst \cup {w \in cTx[p] : \A f \in cFirst : ~SamePrimaryKey(f, w)}
    /\ cTx' = [cTx EXCEPT ![p] = {}]
    /\ cPc' = [cPc EXCEPT ![p] = "done"]
    /\ UNCHANGED <<mergeVars, syncVars, mcpVars, cliVars, cInput, cExisting, cIdx>>

\* The inputs of the two invocations: any two trees that load.
ConcInputs == {loadInputConfig(t) : t \in {FullTree, SparseTree, OtherMarketTree, EmptyTree}}

InitConc ==
    /\ MergeIdle
    /\ SyncIdle
    /\ McpIdle
    /\ CliIdle
    /\ cPc = [p \in Procs |-> "select"]
    /\ cInput \in [Procs -> ConcInputs]
    /\ cExisting = [p \in Procs |-> {}]
    /\ cTx = [p \in Procs |-> {}]
    /\ cIdx = [p \in Procs |-> 0]
    /\ cDb \in {{}, PopulatedStorage}
    /\ cFirst = {}

NextConc ==
    \/ \E p \in Procs : concurrentSelect(p)
    \/ \E p \in Procs : concurrentFillRow(p)
    \/ \E p \in Procs : concurrentCommit(p)

SpecConc == InitConc /\ [][NextConc]_vars

(***************************************************************************)
(* Properties of a run.                                                    *)
(***************************************************************************)
LogKinds == {log[i][1] : i \in 1..Len(log)}

Mutating == {"fill", "overwrite", "delete"}

\* C2: atomicity: once a step of a fill, overwrite or delete run has thrown,
\* the database is its state from before the run, and at no moment do writes
\* of the run show in the database without the run's COMMIT.
Atomicity ==
    args.operation \in Mutating =>
        /\ failed => db = dbPre
        /\ db # dbPre => "COMMIT" \in LogKinds

\* An overwrite that deleted and inserted, then failed and was rolled back.
AtomicityWitness ==
    /\ pc = "ended"
    /\ outcome = "error"
    /\ args.operation = "overwrite"
    /\ {"DELETE", "UPSERT", "ROLLBACK"} \subseteq LogKinds
    /\ removed # {}
    /\ db = dbPre

\* The instance names of the model that end in prod or production, whatever
\* the case of their letters.
ProdNamed == {InstProd, InstProduction}

\* C4: production guard: on a prod-named instance without
\* GP_ALLOW_PROD_MUTATIONS = "true", overwrite and delete end in the error
\* outcome whatever confirm, force and dry-run are, with no prompt shown, no
\* file read and no connection opened; fill and export pass the guard.
ProductionGuard ==
    /\ (/\ args.operation \in {"overwrite", "delete"}
        /\ args.instanceId \in ProdNamed
        /\ env.GP_ALLOW_PROD_MUTATIONS # "true")
       => /\ pc \in {"gate", "exit", "ended"}
          /\ pc # "gate" => failed
          /\ pc = "ended" => outcome = "error"
          /\ LogKinds \subseteq {"stderr"}
          /\ db = dbPre
    /\ (/\ args.operation \in {"fill", "export"}
        /\ pc = "exit"
        /\ failed
        /\ log = <<>>)
       => ~(args.dbUrl \/ env.DATABASE_URL)

\* A forced, confirmed dry-run delete on gp-PROD with the override set to
\* "TRUE" has ended in the error outcome.
ProductionGuardWitness ==
    /\ pc = "ended"
    /\ outcome = "error"
    /\ args.operation = "delete"
    /\ args.instanceId = InstProd
    /\ args.confirm /\ args.force /\ args.dryRun
    /\ env.GP_ALLOW_PROD_MUTATIONS = "TRUE"
    /\ args.dbUrl

\* The rows a run has read for export or removed, as (table, row) pairs.
ExportedRows ==
    {<<STORAGE_TABLE, r>> : r \in IF args.operation = "export" THEN existing ELSE {}}
    \cup UNION {{<<t, r>> : r \in snapshot[t]} : t \in DOMAIN snapshot}

Touched == ExportedRows \cup removed

\* No row of table t carries marketId under JSONB column c before the run.
Untagged(t, c, marketId) ==
    IF t = STORAGE_TABLE
    THEN \A r \in dbPre.storage.rows : DataTag(r.data) # marketId
    ELSE \A r \in dbPre.ext[t].rows : r.tag[c] # marketId

JsonbColumnsOf(t) == IF t = STORAGE_TABLE THEN {"data"} ELSE dbPre.ext[t].cols

TablesBefore ==
    DOMAIN dbPre.ext \cup (IF dbPre.storage.exists THEN {STORAGE_TABLE} ELSE {})

\* C5 as stated: for any table T with a JSON column c, if no row of T has
\* c ->> 'gp_market_id' = m, no row of T is read for export or deleted by an
\* export, overwrite or delete run on market m.
ScopeSafety ==
    args.operation \in {"export", "overwrite", "delete"} =>
        \A t \in TablesBefore : \A c \in JsonbColumnsOf(t) :
            Untagged(t, c, args.marketId) => \A q \in Touched : q[1] # t

\* C5, amended: for any table T other than the processor's own table and the
\* sales-channel assignment tables, if no row of T has gp_market_id = m in any
\* of its JSON columns, no row of T is read for export or deleted by an export,
\* overwrite or delete run on market m.
ScopeSafetyAmended ==
    args.operation \in {"export", "overwrite", "delete"} =>
        \A t \in DOMAIN dbPre.ext \ SeqToSet(CHANNEL_ASSIGNMENT_TABLES) :
            (dbPre.ext[t].cols # {}
             /\ \A c \in dbPre.ext[t].cols : Untagged(t, c, args.marketId))
            => \A q \in Touched : q[1] # t

\* A delete removed rows of the market while the product table, which holds
\* rows of another market only, kept all of its rows.
ScopeSafetyWitness ==
    /\ pc = "ended"
    /\ outcome = "ok"
    /\ args.operation = "delete"
    /\ ~args.dryRun
    /\ "product" \in DOMAIN dbPre.ext
    /\ dbPre.ext["product"].rows # {}
    /\ \A r \in dbPre.ext["product"].rows : r.tag["metadata"] = "m2"
    /\ \E q \in removed : q[1] = "sales_channel"
    /\ db.ext["product"] = dbPre.ext["product"]

\* The rows of the database from before the run that the run's transaction
\* (or, once committed, the database) no longer holds.
GoneRows ==
    {<<STORAGE_TABLE, r>> : r \in dbPre.storage.rows \ (tx.storage.rows \cap db.storage.rows)}
    \cup UNION {{<<t, r>> : r \in dbPre.ext[t].rows \ (tx.ext[t].rows \cap db.ext[t].rows)} :
                    t \in DOMAIN dbPre.ext}

\* C6: every row an overwrite or delete on (instance_id, market_id) removes is
\* a stored row with that (instance_id, market_id), a row tagged with the
\* market in one of its JSON columns, or an assignment-table row whose
\* sales_channel_id is the id of a sales_channel row tagged with the market.
RemovedInScope ==
    args.operation \in {"overwrite", "delete"} =>
        /\ DOMAIN tx.ext = DOMAIN dbPre.ext
        /\ DOMAIN db.ext = DOMAIN dbPre.ext
        /\ \A q \in GoneRows \cup removed :
              \/ /\ q[1] = STORAGE_TABLE
                 /\ q[2].instance_id = args.instanceId
                 /\ q[2].market_id = args.marketId
              \/ /\ q[1] # STORAGE_TABLE
                 /\ \E c \in dbPre.ext[q[1]].cols : q[2].tag[c] = args.marketId
              \/ /\ q[1] \in SeqToSet(CHANNEL_ASSIGNMENT_TABLES)
                 /\ "sales_channel" \in DOMAIN dbPre.ext
                 /\ \E sc \in dbPre.ext["sales_channel"].rows :
                        sc.tag["metadata"] = args.marketId /\ sc.id = q[2].scid

\* A committed delete removed stored rows, tagged rows and assignment rows
\* while rows of another market and another instance were in the database.
RemovedInScopeWitness ==
    /\ pc = "ended"
    /\ outcome = "ok"
    /\ args.operation = "delete"
    /\ \E q \in removed : q[1] = STORAGE_TABLE
    /\ \E q \in removed : q[1] = "product"
    /\ \E q \in removed : q[1] = "product_sales_channel"
    /\ \E r \in db.storage.rows : r.market_id # args.marketId
    /\ \E r \in db.storage.rows : r.instance_id # args.instanceId
    /\ GoneRows = removed

\* C7: dry-run changes nothing: a run with dry-run set ends with the database
\* (its tables and their rows) as before the run and no file written.
DryRunChangesNothing ==
    (args.dryRun /\ pc = "ended") => db = dbPre /\ ~exportFile.written

\* C10: re-run of fill is a no-op: the second of two fill runs with the same
\* input reports inserted = 0, updated = 0 and skipped = the number of
\* incoming rows, and writes no row.
RerunIsNoOp ==
    (runNo = 2 /\ pc = "ended" /\ outcome = "ok") =>
        /\ report.inserted = 0
        /\ report.updated = 0
        /\ report.skipped = Len(incomingRows)
        /\ "UPSERT" \notin LogKinds
        /\ db = dbPre

(***************************************************************************)
(* The merge engine on its own: one merge, then the same merge again.      *)
(***************************************************************************)
InitMerge ==
    /\ mPc = "input"
    /\ \E nd \in 0..MaxElems : \E ni \in 0..(MaxElems - nd) :
           /\ mD \in DocsOf(ScalarsD, ElemD, nd)
           /\ mI \in DocsOf(ScalarsI, ElemI, ni)
    /\ mOut1 = NoResult
    /\ mOut2 = NoResult
    /\ ConcIdle
    /\ SyncIdle
    /\ McpIdle
    /\ CliIdle

\* merged = mergeFill(existing.data, incoming.data)
MergeOnce ==
    /\ mPc = "input"
    /\ mOut1' = mergeFill(mD, mI)
    /\ mPc' = "merged"
    /\ UNCHANGED <<mD, mI, mOut2, concVars, syncVars, mcpVars,
                   cliVars>>

\* the same incoming document merged into the result of the first merge
MergeAgain ==
    /\ mPc = "merged"
    /\ mOut2' = mergeFill(mOut1.value, mI)
    /\ mPc' = "remerged"
    /\ UNCHANGED <<mD, mI, mOut1, concVars, syncVars, mcpVars,
                   cliVars>>

NextMerge == MergeOnce \/ MergeAgain

SpecMerge == InitMerge /\ [][NextMerge]_vars

(***************************************************************************)
(* Properties of the merge engine.                                         *)
(***************************************************************************)
IsEmptyScalar(value) == value.t \in {"null", "undefined"} \/ value = JStr("")

\* Every non-empty scalar of d sits at the same path of r.
RECURSIVE Preserved(_, _)
Preserved(d, r) ==
    CASE IsEmptyScalar(d) -> TRUE
      [] d.t = "array" ->
            /\ r.t = "array"
            /\ Len(r.v) >= Len(d.v)
            /\ \A i \in 1..Len(d.v) : Preserved(d.v[i], r.v[i])
      [] d.t = "object" ->
            /\ r.t = "object"
            /\ DOMAIN d.v \subseteq DOMAIN r.v
            /\ \A k \in DOMAIN d.v : Preserved(d.v[k], r.v[k])
      [] OTHER -> r = d

\* C1: fill monotonicity: mergeFill(D, I).value holds, at every path where D
\* holds a non-empty scalar, exactly the same scalar as D.
FillMonotone == mPc # "input" => Preserved(mD, mOut1.value)

\* An incoming element carries another name for an element D already names.
FillMonotoneWitness ==
    /\ mPc = "merged"
    /\ mOut1.changed
    /\ mD.t = "array"
    /\ mI.t = "array"
    /\ \E i \in 1..Len(mD.v) : \E j \in 1..Len(mI.v) :
           /\ HasStringKey(mD.v[i], "id")
           /\ HasStringKey(mI.v[j], "id")
           /\ mD.v[i].v["id"] = mI.v[j].v["id"]
           /\ HasStringKey(mD.v[i], "name")
           /\ HasStringKey(mI.v[j], "name")
           /\ mD.v[i].v["name"] = JStr("n")
           /\ mI.v[j].v["name"] = JStr("m")
           /\ "product_id" \in DOMAIN mI.v[j].v \ DOMAIN mD.v[i].v

\* C8: fill idempotence: merging the same incoming document into the result of
\* a merge gives that result again.
FillIdempotent == mPc = "remerged" => mOut2.value = mOut1.value
\* Every element of arr is an object holding a string under key k.
Exposes(arr, k) == Len(arr) > 0 /\ \A i \in 1..Len(arr) : HasStringKey(arr[i], k)

KeyValues(arr, k) == {arr[i].v[k].v : i \in 1..Len(arr)}

WithKeyValue(arr, k, x) == {arr[i] : i \in {j \in 1..Len(arr) : arr[j].v[k].v = x}}

\* The elements the reconciliation of d and i may hold for k-value x.
ReconciledElements(d, i, k, x) ==
    LET ds == WithKeyValue(d, k, x)
        is == WithKeyValue(i, k, x)
    IN IF is = {} THEN ds
       ELSE IF ds = {} THEN {clone(e) : e \in is}
       ELSE {mergeFill(pair[1], pair[2]).value : pair \in ds \X is}

\* C9: array identity reconciliation: when the elements of D's array and of
\* I's array all expose identity key k as a string, the merged array has exactly
\* one element per distinct k-value of the two arrays, and that element is the
\* recursive fill-merge of the elements of D and I with that k-value.
ArrayIdentityReconciled ==
    (mPc = "merged" /\ mD.t = "array" /\ mI.t = "array") =>
        \A n \in 1..Len(idKeys) :
            LET k == idKeys[n]
                out == mOut1.value
                all == KeyValues(mD.v, k) \cup KeyValues(mI.v, k)
            IN (/\ Exposes(mD.v, k)
                /\ Exposes(mI.v, k)
                /\ \A m \in 1..(n - 1) :
                       ~(Exposes(mD.v, idKeys[m]) /\ Exposes(mI.v, idKeys[m])))
               => /\ out.t = "array"
                  /\ Len(out.v) = Cardinality(all)
                  /\ \A x \in all :
                         \E e \in 1..Len(out.v) :
                             /\ HasStringKey(out.v[e], k)
                             /\ out.v[e].v[k].v = x
                             /\ out.v[e] \in ReconciledElements(mD.v, mI.v, k, x)

\* C3: concurrent fills merge: once two concurrent fill transactions on the
\* same (instance_id, market_id) have both committed, every row keeps each
\* non-empty scalar that the transaction which wrote the row first stored.
ConcurrentFillsMerge ==
    (\A p \in Procs : cPc[p] = "done") =>
        \A f \in cFirst : \E r \in cDb : SamePrimaryKey(f, r) /\ Preserved(f.data, r.data)

(***************************************************************************)
(* Properties of the safety gate.                                          *)
(***************************************************************************)
\* The run has stopped at the gate: an error and nothing else has happened.
StoppedAtGate ==
    /\ pc \in {"gate", "exit", "ended"}
    /\ pc # "gate" => failed
    /\ pc = "ended" => outcome = "error"
    /\ LogKinds \subseteq {"stderr"}
    /\ db = dbPre

ProdGuarded ==
    args.instanceId \in ProdNamed /\ env.GP_ALLOW_PROD_MUTATIONS # "true"

\* C11: overwrite without confirm and without force fails with the error
\* outcome, no connection opened and no config file read; with confirm or
\* force (and no production block) the gate lets it go on: the run is then
\* past the gate, or fails there for the missing database URL only.
OverwriteNeedsConfirmation ==
    args.operation = "overwrite" =>
        /\ (~args.confirm /\ ~args.force) => StoppedAtGate
        /\ ((args.confirm \/ args.force) /\ ~ProdGuarded /\ pc \in {"exit", "ended"}
            /\ failed /\ LogKinds \subseteq {"stderr"})
           => ~(args.dbUrl \/ env.DATABASE_URL)

\* An overwrite with neither flag, a database URL and a non-production name
\* has ended in the error outcome.
OverwriteNeedsConfirmationWitness ==
    /\ args.operation = "overwrite"
    /\ ~args.confirm /\ ~args.force
    /\ args.dbUrl
    /\ args.instanceId = InstDev
    /\ pc = "ended"
    /\ outcome = "error"

\* The run has got past the gate: the pool exists or something later happened.
PastGate == LogKinds \ {"prompt", "stderr"} # {}

\* The entered line without its blanks (market ids hold none).
Stripped(line) == SelectSeq(line, LAMBDA ch : ch # " ")

\* The run has stopped at the prompt: asked, failed, nothing else happened.
StoppedAtPrompt ==
    /\ pc \in {"gate", "confirm", "exit", "ended"}
    /\ pc = "exit" => failed
    /\ pc = "ended" => outcome = "error"
    /\ LogKinds \subseteq {"prompt", "stderr"}
    /\ db = dbPre

\* C12 as stated: a delete with confirm and without force reaches the database
\* only if the entered text equals market_id.
DeleteConfirmationExact ==
    (args.operation = "delete" /\ args.confirm /\ ~args.force /\ PastGate)
        => stdin = MarketChars(args.marketId)

\* C12, amended: a delete with neither confirm nor force fails; with force it
\* goes on without a prompt; with confirm and no force it prompts and reaches
\* the database only if the entered line, stripped of surrounding blanks,
\* equals market_id, and fails with no database change on any other line.
DeleteConfirmation ==
    args.operation = "delete" =>
        /\ (~args.confirm /\ ~args.force) => StoppedAtGate
        /\ args.force =>
              /\ "prompt" \notin LogKinds
              /\ (~ProdGuarded /\ pc \in {"exit", "ended"} /\ failed
                  /\ LogKinds \subseteq {"stderr"})
                 => ~(args.dbUrl \/ env.DATABASE_URL)
        /\ (args.confirm /\ ~args.force) =>
              /\ (~ProdGuarded /\ pc \notin {"gate", "confirm"}) => "prompt" \in LogKinds
              /\ PastGate => /\ "prompt" \in LogKinds
                             /\ stdin # EndOfInput
                             /\ Stripped(stdin) = MarketChars(args.marketId)
              /\ (stdin # EndOfInput /\ Stripped(stdin) # MarketChars(args.marketId))
                 => StoppedAtPrompt

\* A confirmed delete answered with the market id between blanks has removed
\* rows and ended well.
DeleteConfirmationWitness ==
    /\ args.operation = "delete"
    /\ args.confirm /\ ~args.force /\ ~args.dryRun
    /\ stdin = <<" ", "m", "1", " ">>
    /\ pc = "ended"
    /\ outcome = "ok"
    /\ "DELETE" \in LogKinds

(***************************************************************************)
(* Runs as they are scheduled: the event loop runs a continuation that is  *)
(* ready, so a run that can take a step eventually takes one.  A promise   *)
(* nobody settles leaves no continuation, and the process ends.            *)
(***************************************************************************)
InitLive ==
    /\ MergeIdle
    /\ ConcIdle
    /\ SyncIdle
    /\ McpIdle
    /\ pc = "gate"
    /\ runNo = 1
    /\ GateRuns

SpecLive == InitLive /\ [][Next]_vars /\ WF_vars(Next)

\* C13: end of input at the delete prompt fails the run: once a delete with
\* confirm and without force has asked and stdin gives no line, the run
\* eventually ends in the error outcome.
EofAtPromptFails ==
    (/\ args.operation = "delete"
     /\ args.confirm
     /\ ~args.force
     /\ stdin = EndOfInput
     /\ "prompt" \in LogKinds)
    ~> (pc = "ended" /\ outcome = "error")

\* The three checks of the gate, in terms of the command line, the
\* environment and what the prompt was answered.
GatePassed ==
    /\ args.operation \in {"overwrite", "delete"} =>
          ~ProdGuarded /\ (args.confirm \/ args.force)
    /\ (args.operation = "delete" /\ ~args.force) =>
          /\ Len(log) > 0
          /\ log[1][1] = "prompt"
          /\ stdin # EndOfInput
          /\ Stripped(stdin) = MarketChars(args.marketId)

\* C14: no side effects before the gate: whenever a run has created the pool,
\* read the configuration, opened a connection, run a statement or written
\* the export file, the prod block, the confirm-flag check and the interactive
\* delete confirmation had all passed before.
NoSideEffectsBeforeGate ==
    /\ (PastGate \/ exportFile.written \/ db # dbPre \/ tx # dbPre) => GatePassed
    /\ \A i \in 1..Len(log) : (log[i][1] = "prompt" => i = 1)

\* A confirmed delete was asked first and then connected.
NoSideEffectsBeforeGateWitness ==
    /\ args.operation = "delete"
    /\ ~args.force
    /\ Len(log) > 2
    /\ log[1][1] = "prompt"
    /\ "connect" \in LogKinds
    /\ "read" \in LogKinds

(***************************************************************************)
(* Properties of the cleanup of overwrite and delete.                      *)
(***************************************************************************)
\* The characters of identifiers in code-point order.
CodePointOrder ==
    <<"-", "0","1","2","3","4","5","6","7","8","9",
      "A","B","C","D","E","F","G","H","I","J","K","L","M","N","O","P","Q","R",
      "S","T","U","V","W","X","Y","Z", "_",
      "a","b","c","d","e","f","g","h","i","j","k","l","m","n","o","p","q","r",
      "s","t","u","v","w","x","y","z">>

CodePoint(ch) == CHOOSE i \in 1..Len(CodePointOrder) : CodePointOrder[i] = ch

\* a comes before b in lexicographic order
RECURSIVE LexLess(_, _)
LexLess(a, b) ==
    IF b = <<>> THEN FALSE
    ELSE IF a = <<>> THEN TRUE
    ELSE IF a[1] # b[1] THEN CodePoint(a[1]) < CodePoint(b[1])
    ELSE LexLess(Tail(a), Tail(b))

\* The tables of the DELETE statements of the scoped cleanup, in the order
\* the run issued them.
ScopedDeletes ==
    LET deletes == SelectSeq(log, LAMBDA e : e[1] = "DELETE" /\ e[2] # STORAGE_TABLE)
    IN [i \in 1..Len(deletes) |-> deletes[i][2]]

AssignmentNames == SeqToSet(CHANNEL_ASSIGNMENT_TABLES)

\* The ids of the sales channels tagged with the market before the run.
ChannelIdsBefore ==
    IF "sales_channel" \in DOMAIN dbPre.ext
    THEN {r.id : r \in {x \in dbPre.ext["sales_channel"].rows :
                            x.tag["metadata"] = args.marketId /\ x.id # ""}}
    ELSE {}

\* The order claimed, with `assignment` the tables taken as assignment tables.
OrderedDeletes(assignment) ==
    LET d == ScopedDeletes
    IN \A i, j \in 1..Len(d) : i < j =>
          /\ d[i] # d[j]
          /\ d[i] # "sales_channel"
          /\ d[j] \in assignment => d[i] \in assignment
          /\ (d[i] \notin assignment /\ d[j] \notin assignment /\ d[j] # "sales_channel")
             => LexLess(Spell(d[i]), Spell(d[j]))

DeleteNeedsNoFiles ==
    (args.operation = "delete" /\ PastGate) =>
        /\ "read" \notin LogKinds
        /\ (tree = EmptyTree /\ pc = "ended" /\ outcome = "error")
           => {"connect", "BEGIN"} \cap LogKinds # {}

\* C17: an unsafe SQL identifier aborts before DML: when a table with a JSONB
\* column has a name outside ^[A-Za-z_][A-Za-z0-9_]*$, a run that discovers
\* tables (export, overwrite, delete) does not end well, and it has executed
\* no INSERT, UPDATE or DELETE statement.
UnsafeIdentifierAbortsBeforeDml ==
    (/\ args.operation \in {"export", "overwrite", "delete"}
     /\ "audit-log" \in DOMAIN dbPre.ext
     /\ dbPre.ext["audit-log"].cols # {})
    => /\ pc = "ended" => outcome # "ok"
       /\ {"DELETE", "UPSERT"} \cap LogKinds = {}

(***************************************************************************)
(* Properties of the stored rows and of the report.                        *)
(***************************************************************************)
\* The stored rows of the run's (instance_id, market_id) in database d.
RowsOfMarket(d) ==
    {r \in d.storage.rows :
        r.instance_id = args.instanceId /\ r.market_id = args.marketId}

\* The rows the files on disk stand for: one per YAML file that is there.
RowsOnDisk ==
    LET row(section, key, doc) ==
            [instance_id |-> args.instanceId, market_id |-> args.marketId,
             section |-> section, record_key |-> key, data |-> doc]
        dirs == IF tree.vendorsDir THEN tree.vendors ELSE <<>>
    IN (IF tree.market.kind = "object"
        THEN {row("market", "market", tree.market.doc)} ELSE {})
       \cup (IF tree.products.kind = "object"
             THEN {row("products", "products", tree.products.doc)} ELSE {})
       \cup {row("vendor_products", dirs[i].name, dirs[i].file.doc) :
                i \in {j \in 1..Len(dirs) :
                          dirs[j].isDirectory /\ dirs[j].file.kind = "object"}}

RunForReal ==
    /\ pc = "ended"
    /\ outcome = "ok"
    /\ args.dryRun
    /\ runNo < MaxRuns
    /\ runNo' = runNo + 1
    /\ args' = [args EXCEPT !.dryRun = FALSE]
    /\ dryReport' = report
    /\ pc' = "gate"
    /\ failed' = FALSE
    /\ outcome' = "running"
    /\ tx' = db
    /\ dbPre' = db
    /\ input' = NoInput
    /\ existing' = {}
    /\ plan' = NoPlan
    /\ idx' = 0
    /\ report' = NewReport
    /\ log' = <<>>
    /\ removed' = {}
    /\ snapshot' = NoSnapshot
    /\ exportFile' = NoExportFile
    /\ UNCHANGED <<sideVars, env, stdin, tree, db>>

\* Overwrite (confirmed) and delete (forced) with --dry-run, on every
\* database and every tree that loads.
InitDryThenReal ==
    /\ MergeIdle
    /\ ConcIdle
    /\ SyncIdle
    /\ McpIdle
    /\ pc = "gate"
    /\ runNo = 1
    /\ args \in [operation : {"overwrite", "delete"}, instanceId : {InstDev},
                 marketId : {"m1"}, confirm : {TRUE}, force : BOOLEAN,
                 dryRun : {TRUE}, dbUrl : {TRUE}]
    /\ args.force <=> args.operation = "delete"
    /\ env = [GP_ALLOW_PROD_MUTATIONS |-> "", DATABASE_URL |-> FALSE]
    /\ stdin = EndOfInput
    /\ tree \in {t \in FileTrees : ~loadThrows(t)}
    /\ \E d \in Databases : RunStart(d)

\* The steps of runs in which the database rejects no statement (discovery
\* still fails on an unsafe identifier).
NextDryThenReal ==
    \/ Gate
    \/ Confirm
    \/ ResolveDbUrl
    \/ Load
    \/ Connect
    \/ Begin
    \/ ensureStorageTable
    \/ countStored
    \/ deleteStored
    \/ discoverScope
    \/ deleteScopedDbConfig
    \/ insertIncoming
    \/ Commit
    \/ Rollback
    \/ Release
    \/ PoolEnd
    \/ Exit
    \/ RunForReal

SpecDryThenReal == InitDryThenReal /\ [][NextDryThenReal]_vars

\* The rows of the tables other than the storage table that the database had
\* before the run and has no longer.
ExternalRowsGone ==
    UNION {{<<t, r>> : r \in dbPre.ext[t].rows \ db.ext[t].rows} : t \in DOMAIN dbPre.ext}

\* C19: report.deleted of a successful overwrite or delete is the number of
\* stored rows of (instance_id, market_id) plus the number of rows removed
\* from the other tables, and the dry run that went before on the same
\* database reported the same number.
DeletedCount ==
    (args.operation \in {"overwrite", "delete"} /\ pc = "ended" /\ outcome = "ok"
     /\ ~args.dryRun)
        => /\ report.deleted =
                 Cardinality(RowsOfMarket(dbPre)) + Cardinality(ExternalRowsGone)
           /\ runNo = 2 => dryReport.deleted = report.deleted

\* A dry run reported eight rows and the real run after it removed them.
DeletedCountWitness ==
    /\ args.operation = "delete"
    /\ ~args.dryRun
    /\ runNo = 2
    /\ pc = "ended"
    /\ outcome = "ok"
    /\ dryReport.deleted = 8
    /\ Cardinality(ExternalRowsGone) = 4
    /\ Cardinality(RowsOfMarket(dbPre)) = 4
    /\ RowsOfMarket(db) = {}

\* The stored rows (market, market) of the run's (instance_id, market_id).
MarketRows(d) ==
    {r \in RowsOfMarket(d) : r.section = "market" /\ r.record_key = "market"}

\* C20 as stated: after any successful fill or overwrite with market.yaml on
\* disk there is exactly one stored row (market, market) for the
\* (instance_id, market_id).
OneMarketRow ==
    (/\ args.operation \in {"fill", "overwrite"}
     /\ pc = "ended"
     /\ outcome = "ok"
     /\ tree.market.kind # "absent")
    => Cardinality(MarketRows(db)) = 1

\* C20, amended: the same after any successful fill or overwrite that was not
\* a dry run.
OneMarketRowAmended ==
    (/\ args.operation \in {"fill", "overwrite"}
     /\ ~args.dryRun
     /\ pc = "ended"
     /\ outcome = "ok"
     /\ tree.market.kind # "absent")
    => Cardinality(MarketRows(db)) = 1

\* A fill has merged market.yaml into the market row that was stored, and
\* the row is still the only one.
OneMarketRowWitness ==
    /\ args.operation = "fill"
    /\ ~args.dryRun
    /\ pc = "ended"
    /\ outcome = "ok"
    /\ tree.market.kind = "object"
    /\ report.updated >= 1
    /\ Cardinality(MarketRows(dbPre)) = 1
    /\ MarketRows(db) # MarketRows(dbPre)
    /\ Cardinality(MarketRows(db)) = 1

(***************************************************************************)
(* Properties of the report.                                               *)
(***************************************************************************)
\* The positions of the log that hold an event of this kind.
LogPositions(kind) == {i \in 1..Len(log) : log[i][1] = kind}

\* C21: the report with ok = true is written only after the COMMIT of the
\* run's transaction, with the database holding what the transaction wrote;
\* once a step of the operation or the COMMIT has failed, no report is written
\* and the run ends with the error outcome (stderr, exit status 1).
OkImpliesCommit ==
    /\ \A i \in LogPositions("stdout") :
           /\ \E j \in LogPositions("COMMIT") : j < i
           /\ LogPositions("ROLLBACK") = {}
           /\ ~failed
           /\ db = tx
    /\ failed =>
           /\ LogPositions("stdout") = {}
           /\ outcome # "ok"
           /\ pc = "ended" => outcome = "error" /\ LogPositions("stderr") # {}

\* A fill wrote rows, committed and then reported ok.
OkImpliesCommitWitness ==
    /\ pc = "ended"
    /\ outcome = "ok"
    /\ args.operation = "fill"
    /\ LogPositions("UPSERT") # {}
    /\ \E i \in LogPositions("stdout") : \E j \in LogPositions("COMMIT") : j < i
    /\ db # dbPre

(***************************************************************************)
(* Export and cleanup side by side.                                        *)
(***************************************************************************)
\* The (table, row) pairs exportScopedDbSnapshot places in db_snapshot when
\* it runs on database d for the market.
SnapshotOf(d, marketId) ==
    LET metadataScoped == discoverMetadataScopedTables(d, marketId)
        salesChannelIds == getScopedSalesChannelIds(d, marketId)
        tableNames ==
            {metadataScoped[i].tableName : i \in 1..Len(metadataScoped)}
            \cup (IF salesChannelIds = {} THEN {}
                  ELSE {t \in SeqToSet(CHANNEL_ASSIGNMENT_TABLES) : tableExists(d, t)})
    IN UNION {{<<t, r>> : r \in snapshotRows(d, metadataScoped, salesChannelIds, t, marketId)} :
                  t \in tableNames}

\* The rows outside the storage table that the run removed.
RemovedExternal == {q \in removed : q[1] # STORAGE_TABLE}

\* C22: a committed delete or overwrite has removed, outside the storage
\* table, exactly the rows an export of the same market from the same
\* database state places in db_snapshot, tables with several tagged JSON
\* columns included.
RemovesWhatExportSnapshots ==
    (/\ args.operation \in {"overwrite", "delete"}
     /\ ~args.dryRun
     /\ pc = "ended"
     /\ outcome = "ok")
    => RemovedExternal = SnapshotOf(dbPre, args.marketId)

(***************************************************************************)
(* A fill followed by an export of the same (instance_id, market_id).      *)
(***************************************************************************)
\* The second invocation: --operation export, with or without --dry-run, on
\* the database the fill left.
RunExport ==
    /\ pc = "ended"
    /\ outcome = "ok"
    /\ args.operation = "fill"
    /\ runNo < MaxRuns
    /\ runNo' = runNo + 1
    /\ \E dry \in BOOLEAN : args' = [args EXCEPT !.operation = "export", !.dryRun = dry]
    /\ pc' = "gate"
    /\ failed' = FALSE
    /\ outcome' = "running"
    /\ tx' = db
    /\ dbPre' = db
    /\ input' = NoInput
    /\ existing' = {}
    /\ plan' = NoPlan
    /\ idx' = 0
    /\ report' = NewReport
    /\ log' = <<>>
    /\ removed' = {}
    /\ snapshot' = NoSnapshot
    /\ exportFile' = NoExportFile
    /\ UNCHANGED <<sideVars, env, stdin, tree, dryReport, db>>

\* The steps of a fill and of an export in which the database rejects no
\* statement (discovery still fails on an unsafe identifier).
NextFillThenExport ==
    \/ Gate
    \/ Confirm
    \/ ResolveDbUrl
    \/ Load
    \/ Connect
    \/ Begin
    \/ ensureStorageTable
    \/ fillSelect
    \/ executeFill
    \/ exportRows
    \/ exportScopedDbSnapshot
    \/ executeExport
    \/ Commit
    \/ Rollback
    \/ Release
    \/ PoolEnd
    \/ Exit
    \/ RunExport

SpecFillThenExport == InitRerun /\ [][NextFillThenExport]_vars

\* The data of the stored row (section, record_key) of the run's
\* (instance_id, market_id) in database d, null when there is no such row.
StoredData(d, section, recordKey) ==
    LET hits == {r \in RowsOfMarket(d) : r.section = section /\ r.record_key = recordKey}
    IN IF hits = {} THEN JNull ELSE (CHOOSE r \in hits : TRUE).data

\* The record keys of the stored vendor_products rows.
VendorKeys(d) == {r.record_key : r \in {q \in RowsOfMarket(d) : q.section = "vendor_products"}}

ExportSkipsLoader ==
    args.operation = "export" =>
        /\ "read" \notin LogKinds
        /\ input = NoInput
        /\ report.warnings = <<>>
        /\ (pc = "ended" /\ "ROLLBACK" \notin LogKinds /\ "connect" \in LogKinds)
               => outcome = "ok"

\* An export ended with success and a written document while the disk holds
\* no instance.yaml, no market directory and no schema.
ExportSkipsLoaderWitness ==
    /\ args.operation = "export"
    /\ tree = EmptyTree
    /\ pc = "ended"
    /\ outcome = "ok"
    /\ exportFile.written
    /\ exportFile.market # JNull

\* C25: export only reads the database: when an export run has ended, dry-run
\* or not, the database has the tables and the rows it had before the run.
ExportOnlyReads ==
    (args.operation = "export" /\ pc = "ended") => db = dbPre

(***************************************************************************)
(* Properties of the input loader.                                         *)
(***************************************************************************)
\* The file is a YAML object that declares a market_id other than marketId.
DeclaresOtherMarket(file, marketId) ==
    /\ file.kind = "object"
    /\ "market_id" \in DOMAIN file.doc.v
    /\ file.doc.v["market_id"] # JStr(marketId)

\* market.yaml, products.yaml and the products.yaml of the vendor directories.
LoadedFiles ==
    {tree.market, tree.products}
    \cup {vendorEntries(tree)[i].file :
              i \in {j \in 1..Len(vendorEntries(tree)) : vendorEntries(tree)[j].isDirectory}}

\* C26: when one of the loaded files declares a market_id other than the
\* command line's, a fill or overwrite run fails and writes nothing.
MarketIdCrossCheck ==
    (/\ args.operation \in {"fill", "overwrite"}
     /\ \E f \in LoadedFiles : DeclaresOtherMarket(f, args.marketId)
     /\ pc = "ended")
    => (outcome = "error" /\ db = dbPre)

\* The vendor directories whose products.yaml declares a vendor_id that is
\* not the directory's name.
RenamedVendors ==
    {e \in SeqToSet(vendorEntries(tree)) :
        /\ e.isDirectory
        /\ e.file.kind = "object"
        /\ "vendor_id" \in DOMAIN e.file.doc.v
        /\ e.file.doc.v["vendor_id"] # JStr(e.name)}

\* C27: when a fill or overwrite that is not a dry run has ended and a vendor
\* directory's products.yaml declares a vendor_id other than the directory
\* name, the run has not failed, the document is stored under the file's
\* vendor_id, and the report carries a warning about that directory.
VendorIdentity ==
    (/\ args.operation \in {"fill", "overwrite"}
     /\ ~args.dryRun
     /\ pc = "ended"
     /\ "ROLLBACK" \notin LogKinds
     /\ "COMMIT" \in LogKinds)
    => \A e \in RenamedVendors :
           /\ outcome = "ok"
           /\ \E r \in RowsOfMarket(db) :
                  /\ r.section = "vendor_products"
                  /\ JStr(r.record_key) = e.file.doc.v["vendor_id"]
           /\ \E i \in 1..Len(report.warnings) :
                  report.warnings[i][1] # "Missing file" /\ report.warnings[i][2] = e.name

\* The entries of vendors/ that are no directory, or a directory without a
\* products.yaml.
SkippedVendorEntries ==
    {e \in SeqToSet(vendorEntries(tree)) : ~e.isDirectory \/ e.file.kind = "absent"}

\* C28: once the loader has returned, every entry of vendors/ that is no
\* directory and every vendor directory without a products.yaml has exactly
\* one entry in the report's warnings, gives no incoming row and so no stored
\* row, and has not made the run fail.
VendorDiscoveryWarnings ==
    (args.operation # "export" /\ "read" \in LogKinds /\ ~loadThrows(tree)) =>
        \A e \in SkippedVendorEntries :
            /\ Cardinality({i \in 1..Len(report.warnings) : report.warnings[i][2] = e.name}) = 1
            /\ \A i \in 1..Len(incomingRows) : incomingRows[i].record_key # e.name
            /\ ("ROLLBACK" \notin LogKinds /\ pc = "ended" /\ "COMMIT" \in LogKinds)
                   => outcome = "ok"

(***************************************************************************)
(* Properties of the database URL.                                         *)
(***************************************************************************)
\* C29: with neither --db-url nor DATABASE_URL set, a run of any operation
\* ends with the error outcome, and nothing but the error message has
\* happened before: no prompt on stdin, no file read, no pool or connection.
MissingDbUrlFailsFirst ==
    ~(args.dbUrl \/ env.DATABASE_URL) =>
        /\ LogKinds \subseteq {"stderr"}
        /\ pc = "ended" => outcome = "error"
        /\ db = dbPre

(***************************************************************************)
(* The catalog synchronisation script gp-config-sync-catalog: the          *)
(* categories (two passes), collections and products of a market's fixture *)
(* are looked up by handle in the product module and created or updated.   *)
(***************************************************************************)
\* the market the script is run for (args[1]), and another one
TargetMarket == "mercur"

OtherMarket == "bonbeauty"

\* a string field, and a handle or slug, that the fixture leaves out
Missing == "undefined"

NoChars == <<"undefined">>

\* a rank the fixture or the entity leaves out
NoRank == -1

\* a ?? b, for a string field and for a handle or slug
Coalesce(a, b) == IF a = Missing THEN b ELSE a

CoalesceChars(a, b) == IF a = NoChars THEN b ELSE a

LowerLetters ==
    {"a","b","c","d","e","f","g","h","i","j","k","l","m","n","o","p","q","r",
     "s","t","u","v","w","x","y","z"}

\* .replace(/\s+/g, "-"): every run of blanks becomes one hyphen
RECURSIVE Hyphenate(_)
Hyphenate(chars) ==
    IF chars = <<>> THEN <<>>
    ELSE IF chars[1] # " " THEN <<chars[1]>> \o Hyphenate(Tail(chars))
    ELSE IF Len(chars) > 1 /\ chars[2] = " " THEN Hyphenate(Tail(chars))
    ELSE <<"-">> \o Hyphenate(Tail(chars))

\* str.toLowerCase().replace(/\s+/g, "-").replace(/[^a-z0-9-]/g, "")
normalizeHandle(str) ==
    SelectSeq(Hyphenate([i \in 1..Len(str) |-> ToLower(str[i])]),
              LAMBDA c : c \in LowerLetters \cup Digits \cup {"-"})

\* normalizeHandle((cat.handle ?? cat.slug ?? "").trim())
handleOrSlug(item) ==
    normalizeHandle(Trim(CoalesceChars(item.handle, CoalesceChars(item.slug, <<>>))))

\* normalizeHandle((col.handle ?? "").trim())
handleOf(col) == normalizeHandle(Trim(CoalesceChars(col.handle, <<>>)))

\* list.filter((c) => c.active !== false)
activeOf(list) == SelectSeq(list, LAMBDA c : c.active)

\* metadata.gp of an entity that has none, and the one the script writes
NoGp == [synced_by |-> "", market_id |-> "", fixture_id |-> ""]

Gp(fixtureId) ==
    [synced_by |-> "gp-config-sync-catalog", market_id |-> TargetMarket,
     fixture_id |-> fixtureId]

\* matches?.[0] when the list call returns nothing
NoEntity == [id |-> ""]

\* A guard that lets every entity through.
crossMarketOff(found) == FALSE

\* The H-3 test: existingMarket && existingMarket !== marketId
crossMarket(found) ==
    found.gp.market_id # "" /\ found.gp.market_id # TargetMarket

\* the ids the product module gives to the entities it creates
NewIds == <<"n1", "n2", "n3", "n4", "n5", "n6">>

NewId(store) ==
    NewIds[Cardinality({e \in UNION {store[k] : k \in DOMAIN store} :
                            e.id \in SeqToSet(NewIds)}) + 1]

\* fixtureToMedusaMap.set(key, value)
MapSet(map, key, value) == [x \in DOMAIN map \cup {key} |-> IF x = key THEN value ELSE map[x]]

\* The part of the state the three sync functions work on, as one record.
SyncState ==
    [entities |-> entities, counts |-> counts, warnings |-> warnings, calls |-> calls,
     fixtureToMedusaMap |-> fixtureToMedusaMap]

Warn(st, text, kind, fixtureId) ==
    [st EXCEPT !.warnings = Append(@, <<text, kind, fixtureId>>)]

Count(st, kind, field) == [st EXCEPT !.counts[kind][field] = @ + 1]

\* a call of the product module (or of a workflow) for a fixture item
Call(st, method, kind, fixtureId, target) ==
    [st EXCEPT !.calls = Append(@, <<method, kind, fixtureId, target>>)]

Replace(st, kind, old, new) ==
    [st EXCEPT !.entities[kind] = (@ \ {old}) \cup {new}]

Remember(st, kind, fixtureId, id) ==
    [st EXCEPT !.fixtureToMedusaMap[kind] = MapSet(@, fixtureId, id)]

\* skipCategoryIds after the pre-validation loop: the category_id of every
\* active category whose handle an earlier active category has.
skipCategoryIds(active) ==
    {active[i].category_id :
        i \in {j \in 1..Len(active) :
                  /\ handleOrSlug(active[j]) # <<>>
                  /\ \E h \in 1..(j - 1) : handleOrSlug(active[h]) = handleOrSlug(active[j])}}

\* The warnings of syncCategories' two pre-validation loops, in order.
preValidationWarnings(active) ==
    LET dup == SelectSeq([i \in 1..Len(active) |-> i],
                         LAMBDA j : /\ handleOrSlug(active[j]) # <<>>
                                    /\ \E h \in 1..(j - 1) :
                                           handleOrSlug(active[h]) = handleOrSlug(active[j]))
        orphan == SelectSeq(active,
                            LAMBDA c : /\ c.parent_category_id # ""
                                       /\ \A i \in 1..Len(active) :
                                              active[i].category_id # c.parent_category_id)
    IN [i \in 1..Len(dup) |-> <<"duplicate handle", "category", active[dup[i]].category_id>>]
       \o [i \in 1..Len(orphan) |->
              <<"parent not found in fixture", "category", orphan[i].category_id>>]

\* One turn of pass 1 of syncCategories for cat: found is matches?.[0] (or
\* NoEntity), rejects names the service call that throws in this turn.
syncCategory(st, cat, skip, found, rejects) ==
    LET k == "category"
        id == cat.category_id
        handle == handleOrSlug(cat)
        listed == Call(st, "list", k, id, found.id)
    IN IF handle = <<>> THEN Warn(st, "missing handle", k, id)
       ELSE IF id \in skip THEN Count(st, k, "skipped")
       ELSE IF rejects = "list"
       THEN Warn(Call(st, "list", k, id, "rejected"), "error", k, id)
       ELSE IF found # NoEntity
       THEN IF crossMarket(found)
            THEN Count(Warn(listed, "cross-market guard", k, id), k, "skipped")
            ELSE IF rejects = "write"
            THEN Warn(Call(listed, "update", k, id, "rejected"), "error", k, id)
            ELSE Count(Remember(
                     Replace(Call(listed, "update", k, id, found.id), k, found,
                             [found EXCEPT
                                 !.name = cat.name,
                                 !.description = Coalesce(cat.description, found.description),
                                 !.is_active = TRUE,
                                 !.rank = IF cat.rank # NoRank THEN cat.rank
                                          ELSE IF found.rank # NoRank THEN found.rank
                                          ELSE 0,
                                 !.gp = Gp(id)]),
                     k, id, found.id), k, "updated")
       ELSE IF rejects = "write"
       THEN Warn(Call(listed, "create", k, id, "rejected"), "error", k, id)
       ELSE LET createdId == NewId(st.entities)
            IN Count(Remember(
                   [Call(listed, "create", k, id, createdId) EXCEPT
                       !.entities[k] = @ \cup
                           {[id |-> createdId, handle |-> handle, name |-> cat.name,
                             description |-> cat.description, is_active |-> TRUE,
                             rank |-> IF cat.rank # NoRank THEN cat.rank ELSE 0,
                             gp |-> Gp(id), parent_category_id |-> ""]}],
                   k, id, createdId), k, "created")

\* One turn of pass 2 of syncCategories for cat.
syncCategoryParent(st, cat, rejects) ==
    LET k == "category"
        id == cat.category_id
        map == st.fixtureToMedusaMap[k]
    IN IF cat.parent_category_id = "" THEN st
       ELSE IF id \notin DOMAIN map THEN st
       ELSE IF cat.parent_category_id \notin DOMAIN map
       THEN Warn(st, "parent not in Medusa map", k, id)
       ELSE IF rejects = "write"
       THEN Warn(Call(st, "update", k, id, "rejected"), "parent update", k, id)
       ELSE [Call(st, "update", k, id, map[id]) EXCEPT
                !.entities[k] =
                    {IF e.id = map[id]
                     THEN [e EXCEPT !.parent_category_id = map[cat.parent_category_id]]
                     ELSE e : e \in @}]

\* One turn of the loop of syncCollections for col.
syncCollection(st, col, found, rejects) ==
    LET k == "collection"
        id == col.collection_id
        handle == handleOf(col)
        listed == Call(st, "list", k, id, found.id)
    IN IF handle = <<>> THEN Warn(st, "missing handle", k, id)
       ELSE IF rejects = "list"
       THEN Warn(Call(st, "list", k, id, "rejected"), "error", k, id)
       ELSE IF found # NoEntity
       THEN IF crossMarket(found)
            THEN Count(Warn(listed, "cross-market guard", k, id), k, "skipped")
            ELSE IF rejects = "write"
            THEN Warn(Call(listed, "update", k, id, "rejected"), "error", k, id)
            ELSE Count(Remember(
                     Replace(Call(listed, "update", k, id, found.id), k, found,
                             [found EXCEPT !.title = col.title, !.gp = Gp(id)]),
                     k, id, found.id), k, "updated")
       ELSE IF rejects = "write"
       THEN Warn(Call(listed, "create", k, id, "rejected"), "error", k, id)
       ELSE LET createdId == NewId(st.entities)
            IN Count(Remember(
                   [Call(listed, "create", k, id, createdId) EXCEPT
                       !.entities[k] = @ \cup
                           {[id |-> createdId, handle |-> handle, title |-> col.title,
                             gp |-> Gp(id)]}],
                   k, id, createdId), k, "created")

\* a base_price.amount that is no number
NoAmount == -1

\* One turn of the loop of syncProducts for product: found is matches?.[0]
\* (or NoEntity), rejects names the call that throws, linkRejects says that
\* the sales-channel link workflow throws, workflow is what
\* createProductsWorkflow returns ("result", "errors" or "nothing").
syncProduct(st, product, found, rejects, linkRejects, workflow) ==
    LET k == "product"
        id == product.product_id
        handle == handleOrSlug(product)
        categoryMap == st.fixtureToMedusaMap["category"]
        collectionMap == st.fixtureToMedusaMap["collection"]
        resolvedCategoryIds ==
            IF product.category_id # "" /\ product.category_id \in DOMAIN categoryMap
            THEN {categoryMap[product.category_id]} ELSE {}
        resolvedCollectionId ==
            IF product.collection_id # "" /\ product.collection_id \in DOMAIN collectionMap
            THEN collectionMap[product.collection_id] ELSE ""
        st1 == IF product.category_id # "" /\ resolvedCategoryIds = {}
               THEN Warn(st, "category not in category map", k, id) ELSE st
        st2 == IF product.collection_id # "" /\ resolvedCollectionId = ""
               THEN Warn(st1, "collection not in collection map", k, id) ELSE st1
        listed == Call(st2, "list", k, id, found.id)
    IN IF handle = <<>> THEN Warn(st, "missing handle", k, id)
       ELSE IF product.base_price.amount = NoAmount
       THEN Warn(st, "base_price.amount is not a number", k, id)
       ELSE IF product.base_price.currency = <<>>
       THEN Warn(st, "base_price.currency is empty", k, id)
       ELSE IF rejects = "list"
       THEN Warn(Call(st2, "list", k, id, "rejected"), "error", k, id)
       ELSE IF found # NoEntity
       THEN IF crossMarket(found)
            THEN Count(Warn(listed, "cross-market guard", k, id), k, "skipped")
            ELSE IF rejects = "write"
            THEN Warn(Call(listed, "update", k, id, "rejected"), "error", k, id)
            ELSE LET updated ==
                         [found EXCEPT
                             !.title = product.name,
                             !.description = Coalesce(product.description, found.description),
                             !.status = "published",
                             !.gp = Gp(id),
                             !.category_ids = @ \cup resolvedCategoryIds,
                             !.collection_id = IF resolvedCollectionId # ""
                                               THEN resolvedCollectionId ELSE @]
                     written == Replace(Call(listed, "update", k, id, found.id), k, found,
                                        updated)
                 IN IF linkRejects
                    THEN Count(Warn(Call(written, "link", k, id, "rejected"),
                                    "sales channel link", k, id), k, "updated")
                    ELSE Count(Replace(Call(written, "link", k, id, found.id), k, updated,
                                       [updated EXCEPT !.sales_channels = @ \cup {"sc"}]),
                               k, "updated")
       ELSE IF rejects = "write"
       THEN Warn(Call(listed, "create", k, id, "rejected"), "error", k, id)
       ELSE IF workflow = "errors"
       THEN Warn(Call(listed, "create", k, id, "errors"), "createProductsWorkflow errors", k, id)
       ELSE IF workflow = "nothing"
       THEN Call(listed, "create", k, id, "nothing")
       ELSE LET createdId == NewId(st.entities)
            IN Count([Call(listed, "create", k, id, createdId) EXCEPT
                         !.entities[k] = @ \cup
                             {[id |-> createdId, handle |-> handle, title |-> product.name,
                               description |-> product.description, status |-> "published",
                               gp |-> Gp(id), category_ids |-> resolvedCategoryIds,
                               collection_id |-> resolvedCollectionId,
                               sales_channels |-> {"sc"},
                               price |-> [amount |-> product.base_price.amount * 100,
                                          currency_code |->
                                              [i \in 1..Len(product.base_price.currency) |->
                                                  ToLower(product.base_price.currency[i])]]]}],
                     k, "created")

(***************************************************************************)
(* Fixtures and catalogs the script is run on.                             *)
(***************************************************************************)
FixtureCategory(categoryId, handle, slug, active, parent) ==
    [category_id |-> categoryId, name |-> "Name", handle |-> handle, slug |-> slug,
     active |-> active, rank |-> NoRank, parent_category_id |-> parent,
     description |-> Missing]

FixtureCollection(collectionId, handle, active) ==
    [collection_id |-> collectionId, title |-> "Title", handle |-> handle, active |-> active]

FixtureProduct(productId, handle, categoryId, collectionId, amount, currency) ==
    [product_id |-> productId, name |-> "Name", handle |-> handle, slug |-> NoChars,
     active |-> TRUE, category_id |-> categoryId, collection_id |-> collectionId,
     description |-> "text", base_price |-> [amount |-> amount, currency |-> currency]]

\* "Top", the slug "on  top" of a child of c1, " top " once more, an inactive
\* category, an empty handle that hides the slug, and an entry that is in
\* the file twice
CategoryFixtures ==
    {<<FixtureCategory("c1", <<"T","o","p">>, NoChars, TRUE, ""),
       FixtureCategory("c2", NoChars, <<"o","n"," "," ","t","o","p">>, TRUE, "c1"),
       FixtureCategory("c3", <<" ","t","o","p"," ">>, NoChars, TRUE, "c9")>>,
     <<FixtureCategory("c1", <<"T","o","p">>, NoChars, TRUE, ""),
       FixtureCategory("c4", <<"p","r","o">>, NoChars, FALSE, ""),
       FixtureCategory("c5", <<>>, <<"d","u","o">>, TRUE, "c1")>>,
     <<FixtureCategory("c6", <<"p","r","o">>, NoChars, TRUE, ""),
       FixtureCategory("c6", <<"p","r","o">>, NoChars, TRUE, "")>>,
     <<>>}

CollectionFixtures ==
    {<<FixtureCollection("l1", <<"P","r","o","!">>, TRUE),
       FixtureCollection("l2", NoChars, TRUE)>>,
     <<FixtureCollection("l1", <<"P","r","o","!">>, TRUE),
       FixtureCollection("l3", <<"d","u","o">>, FALSE)>>}

ProductFixtures ==
    {<<FixtureProduct("p1", <<"U","n","i","t">>, "c1", "l1", 12, <<"P","L","N">>),
       FixtureProduct("p2", <<"d","u","o">>, "", "", NoAmount, <<"P","L","N">>),
       FixtureProduct("p4", <<"d","u","o">>, "c2", "l1", 7, <<"P","L","N">>)>>,
     <<FixtureProduct("p1", <<"U","n","i","t">>, "c2", "l2", 12, <<"P","L","N">>),
       FixtureProduct("p3", <<"d","u","o">>, "", "", 5, <<>>)>>}

Catalogs ==
    {[market_id |-> m, categories |-> c, collections |-> l, products |-> p] :
        m \in {TargetMarket, OtherMarket}, c \in CategoryFixtures,
        l \in CollectionFixtures, p \in ProductFixtures}

CategoryEntity(id, handle, marketId) ==
    [id |-> id, handle |-> handle, name |-> "Old", description |-> "old", is_active |-> FALSE,
     rank |-> NoRank,
     gp |-> IF marketId = "" THEN NoGp ELSE [Gp("old") EXCEPT !.market_id = marketId],
     parent_category_id |-> ""]

CollectionEntity(id, handle, marketId) ==
    [id |-> id, handle |-> handle, title |-> "Old",
     gp |-> IF marketId = "" THEN NoGp ELSE [Gp("old") EXCEPT !.market_id = marketId]]

ProductEntity(id, handle, marketId) ==
    [id |-> id, handle |-> handle, title |-> "Old", description |-> "old", status |-> "draft",
     gp |-> IF marketId = "" THEN NoGp ELSE [Gp("old") EXCEPT !.market_id = marketId],
     category_ids |-> {"x1"}, collection_id |-> "", sales_channels |-> {},
     price |-> [amount |-> 100, currency_code |-> <<"p","l","n">>]]

\* The catalogs of the product module: empty; entities of the other market
\* under the fixture's handles; entities of the target market or of no market.
Stores ==
    {[category |-> {}, collection |-> {}, product |-> {}],
     [category |-> {CategoryEntity("e1", <<"t","o","p">>, OtherMarket),
                    CategoryEntity("e2", <<"o","n","-","t","o","p">>, "")},
      collection |-> {CollectionEntity("e3", <<"p","r","o">>, OtherMarket)},
      product |-> {ProductEntity("e4", <<"u","n","i","t">>, OtherMarket)}],
     [category |-> {CategoryEntity("e1", <<"t","o","p">>, TargetMarket)},
      collection |-> {CollectionEntity("e3", <<"p","r","o">>, "")},
      product |-> {ProductEntity("e4", <<"u","n","i","t">>, TargetMarket)}]}

(***************************************************************************)
(* The script as a state machine.                                          *)
(***************************************************************************)
\* the variables one run of the script leaves alone
otherVars == <<mergeVars, concVars, mcpVars, cliVars, history>>

\* A list call that finds nothing under any handle.
MatchesNothing(kind, handle) == {NoEntity}

\* the entities a list call by handle returns; matches?.[0] is one of them
Matches(kind, handle) ==
    IF \E e \in entities[kind] : e.handle = handle
    THEN {e \in entities[kind] : e.handle = handle}
    ELSE {NoEntity}

\* the variables take the values of the record a sync function returns
Becomes(st) ==
    /\ entities' = st.entities
    /\ counts' = st.counts
    /\ warnings' = st.warnings
    /\ calls' = st.calls
    /\ fixtureToMedusaMap' = st.fixtureToMedusaMap

\* gpConfigSyncCatalog up to the first sync call: the OP-1 market_id guard
\* and validatePrerequisites, which throws or returns, with or without a
\* warning.
gpConfigSyncCatalog ==
    /\ sPc = "start"
    /\ IF catalog.market_id # TargetMarket
       THEN sPc' = "failed" /\ UNCHANGED warnings
       ELSE \E prerequisites \in {"met", "warned", "unmet"} :
               /\ sPc' = IF prerequisites = "unmet" THEN "failed" ELSE "prevalidate"
               /\ warnings' = IF prerequisites = "warned"
                              THEN Append(warnings, <<"prerequisite", "api_key", "">>)
                              ELSE warnings
    /\ UNCHANGED <<otherVars, sIdx, catalog, entities, entitiesPre, counts, calls,
                   fixtureToMedusaMap>>

\* The head of syncCategories: the two pre-validation loops.
syncCategoriesPreValidate ==
    /\ sPc = "prevalidate"
    /\ warnings' = warnings \o preValidationWarnings(activeOf(catalog.categories))
    /\ sIdx' = 1
    /\ sPc' = "categories"
    /\ UNCHANGED <<otherVars, catalog, entities, entitiesPre, counts, calls,
                   fixtureToMedusaMap>>

\* Pass 1 of syncCategories: the loop test and one turn.
syncCategories ==
    /\ sPc = "categories"
    /\ LET active == activeOf(catalog.categories)
       IN IF sIdx > Len(active)
          THEN /\ sPc' = "parents"
               /\ sIdx' = 1
               /\ UNCHANGED <<entities, counts, warnings, calls, fixtureToMedusaMap>>
          ELSE /\ sPc' = sPc
               /\ sIdx' = sIdx + 1
               /\ \E found \in Matches("category", handleOrSlug(active[sIdx])) :
                  \E rejects \in {"none", "list", "write"} :
                      Becomes(syncCategory(SyncState, active[sIdx], skipCategoryIds(active),
                                           found, rejects))
    /\ UNCHANGED <<otherVars, catalog, entitiesPre>>

\* Pass 2 of syncCategories: the loop test and one turn.
syncCategoriesParents ==
    /\ sPc = "parents"
    /\ LET active == activeOf(catalog.categories)
       IN IF sIdx > Len(active)
          THEN /\ sPc' = "collections"
               /\ sIdx' = 1
               /\ UNCHANGED <<entities, counts, warnings, calls, fixtureToMedusaMap>>
          ELSE /\ sPc' = sPc
               /\ sIdx' = sIdx + 1
               /\ \E rejects \in {"none", "write"} :
                      Becomes(syncCategoryParent(SyncState, active[sIdx], rejects))
    /\ UNCHANGED <<otherVars, catalog, entitiesPre>>

\* syncCollections: the loop test and one turn.
syncCollections ==
    /\ sPc = "collections"
    /\ LET active == activeOf(catalog.collections)
       IN IF sIdx > Len(active)
          THEN /\ sPc' = "products"
               /\ sIdx' = 1
               /\ UNCHANGED <<entities, counts, warnings, calls, fixtureToMedusaMap>>
          ELSE /\ sPc' = sPc
               /\ sIdx' = sIdx + 1
               /\ \E found \in Matches("collection", handleOf(active[sIdx])) :
                  \E rejects \in {"none", "list", "write"} :
                      Becomes(syncCollection(SyncState, active[sIdx], found, rejects))
    /\ UNCHANGED <<otherVars, catalog, entitiesPre>>

\* syncProducts: the loop test and one turn.
syncProducts ==
    /\ sPc = "products"
    /\ LET active == activeOf(catalog.products)
       IN IF sIdx > Len(active)
          THEN /\ sPc' = "summary"
               /\ sIdx' = 1
               /\ UNCHANGED <<entities, counts, warnings, calls, fixtureToMedusaMap>>
          ELSE /\ sPc' = sPc
               /\ sIdx' = sIdx + 1
               /\ \E found \in Matches("product", handleOrSlug(active[sIdx])) :
                  \E rejects \in {"none", "list", "write"} :
                  \E linkRejects \in BOOLEAN :
                  \E workflow \in {"result", "errors", "nothing"} :
                      Becomes(syncProduct(SyncState, active[sIdx], found, rejects,
                                          linkRejects, workflow))
    /\ UNCHANGED <<otherVars, catalog, entitiesPre>>

\* The JSON summary and the exit status: 1 when there is a warning.
syncSummary ==
    /\ sPc = "summary"
    /\ sPc' = IF Len(warnings) > 0 THEN "exit_1" ELSE "done"
    /\ UNCHANGED <<otherVars, sIdx, catalog, entities, entitiesPre, counts, warnings, calls,
                   fixtureToMedusaMap>>

InitSync ==
    /\ MergeIdle
    /\ ConcIdle
    /\ CliIdle
    /\ McpIdle
    /\ sPc = "start"
    /\ sIdx = 0
    /\ catalog \in Catalogs
    /\ entities \in Stores
    /\ entitiesPre = entities
    /\ counts = [k \in {"category", "collection", "product"} |-> NoCounts]
    /\ warnings = <<>>
    /\ calls = <<>>
    /\ fixtureToMedusaMap = [k \in {"category", "collection"} |-> EmptyFcn]
    /\ history = <<>>

NextSync ==
    \/ gpConfigSyncCatalog
    \/ syncCategoriesPreValidate
    \/ syncCategories
    \/ syncCategoriesParents
    \/ syncCollections
    \/ syncProducts
    \/ syncSummary

SpecSync == InitSync /\ [][NextSync]_vars

(***************************************************************************)
(* Properties of the catalog synchronisation.                              *)
(***************************************************************************)
\* The entity carries metadata.gp.market_id of another market.
Foreign(e) == e.gp.market_id \notin {"", TargetMarket}

\* The ids of the entities of a kind that belonged to another market before
\* the script ran.
ForeignIds(kind) == {e.id : e \in {x \in entitiesPre[kind] : Foreign(x)}}

\* The positions of the list calls of a kind that returned such an entity.
GuardedCalls(kind) ==
    {i \in 1..Len(calls) :
        calls[i][1] = "list" /\ calls[i][2] = kind /\ calls[i][4] \in ForeignIds(kind)}

\* The active categories pass 1 has skipped so far as duplicates.
DuplicatesSkipped ==
    LET active == activeOf(catalog.categories)
    IN {i \in 1..Len(active) :
           /\ handleOrSlug(active[i]) # <<>>
           /\ active[i].category_id \in skipCategoryIds(active)
           /\ \/ sPc \in {"parents", "collections", "products", "summary", "done", "exit_1"}
              \/ sPc = "categories" /\ i < sIdx}

\* C30: the cross-market guard of syncCategories, syncCollections and
\* syncProducts: for every fixture item whose handle found an entity of
\* another market there is no update, create or link call, skipped has been
\* incremented once and one 'cross-market guard' warning recorded; and every
\* entity of another market has the fields and metadata it had before.
CrossMarketGuard ==
    \A kind \in {"category", "collection", "product"} :
        /\ \A i \in GuardedCalls(kind) :
               /\ \A j \in 1..Len(calls) :
                      (calls[j][2] = kind /\ calls[j][3] = calls[i][3])
                          => calls[j][1] = "list"
               /\ Cardinality({w \in 1..Len(warnings) :
                                   warnings[w] = <<"cross-market guard", kind, calls[i][3]>>}) = 1
        /\ \A j \in 1..Len(calls) :
               calls[j][2] = kind /\ calls[j][1] # "list" => calls[j][4] \notin ForeignIds(kind)
        /\ counts[kind].skipped =
               Cardinality(GuardedCalls(kind))
               + (IF kind = "category" THEN Cardinality(DuplicatesSkipped) ELSE 0)
        /\ \A e \in entitiesPre[kind] : Foreign(e) => e \in entities[kind]

\* A run met an entity of another market under a handle of each of the three
\* kinds, skipped all three and went on to write to other entities.
CrossMarketGuardWitness ==
    /\ sPc = "exit_1"
    /\ \A kind \in {"category", "collection", "product"} :
           /\ GuardedCalls(kind) # {}
           /\ counts[kind].skipped >= 1
    /\ \E j \in 1..Len(calls) : calls[j][1] = "update"
    /\ \E j \in 1..Len(calls) : calls[j][1] = "create" /\ calls[j][4] = "n1"
    /\ entities # entitiesPre

(***************************************************************************)
(* syncCategories called again and again with the same fixture on the      *)
(* catalog the previous call left.                                         *)
(***************************************************************************)
MaxSyncRuns == 3

\* A further call of syncCategories: counts, fixtureToMedusaMap and the
\* caller's warnings start afresh; what the call that returned did is kept
\* for comparison.
syncCategoriesAgain ==
    /\ sPc = "collections"
    /\ Len(history) < MaxSyncRuns - 1
    /\ history' = Append(history,
                         [counts |-> counts["category"], warnings |-> warnings,
                          calls |-> calls, categories |-> entities["category"]])
    /\ sPc' = "prevalidate"
    /\ sIdx' = 0
    /\ counts' = [k \in {"category", "collection", "product"} |-> NoCounts]
    /\ warnings' = <<>>
    /\ calls' = <<>>
    /\ fixtureToMedusaMap' = [k \in {"category", "collection"} |-> EmptyFcn]
    /\ UNCHANGED <<mergeVars, concVars, mcpVars, cliVars, catalog, entities, entitiesPre>>

\* syncCategories called directly, for every category fixture and catalog.
InitSyncAgain ==
    /\ MergeIdle
    /\ ConcIdle
    /\ CliIdle
    /\ McpIdle
    /\ sPc = "prevalidate"
    /\ sIdx = 0
    /\ catalog \in {c \in Catalogs : c.market_id = TargetMarket}
    /\ entities \in Stores
    /\ entitiesPre = entities
    /\ counts = [k \in {"category", "collection", "product"} |-> NoCounts]
    /\ warnings = <<>>
    /\ calls = <<>>
    /\ fixtureToMedusaMap = [k \in {"category", "collection"} |-> EmptyFcn]
    /\ history = <<>>

NextSyncAgain ==
    \/ syncCategoriesPreValidate
    \/ syncCategories
    \/ syncCategoriesParents
    \/ syncCategoriesAgain

SpecSyncAgain == InitSyncAgain /\ [][NextSyncAgain]_vars

(***************************************************************************)
(* Repeated calls of syncCategories.                                       *)
(***************************************************************************)
\* what the calls of syncCategories that have returned did, oldest first
CompletedRuns ==
    IF sPc = "collections"
    THEN Append(history, [counts |-> counts["category"], warnings |-> warnings,
                          calls |-> calls, categories |-> entities["category"]])
    ELSE history

\* no call of the product module threw during the run
NoCallRejected(run) ==
    \A i \in 1..Len(run.calls) : run.calls[i][4] # "rejected"

\* how many calls of the method the run made for the fixture category
CallsFor(run, method, categoryId) ==
    Cardinality({i \in 1..Len(run.calls) :
                    /\ run.calls[i][1] = method
                    /\ run.calls[i][2] = "category"
                    /\ run.calls[i][3] = categoryId})

ActiveCategoryIds ==
    {activeOf(catalog.categories)[i].category_id : i \in 1..Len(activeOf(catalog.categories))}

\* the entries a later entry of which repeats the handle, by position
LaterOccurrences(active) ==
    {j \in 1..Len(active) :
        /\ handleOrSlug(active[j]) # <<>>
        /\ \E h \in 1..(j - 1) : handleOrSlug(active[h]) = handleOrSlug(active[j])}

\* the categories pass 1 looks up: a usable handle, and no repeated entry
\* carries the category_id
LookedUp(active) ==
    {active[i].category_id :
        i \in {j \in 1..Len(active) :
                  /\ handleOrSlug(active[j]) # <<>>
                  /\ \A h \in LaterOccurrences(active) :
                         active[h].category_id # active[j].category_id}}

\* the handle the category of the fixture is looked up by
HandleOfCategory(categoryId) ==
    LET active == activeOf(catalog.categories)
    IN handleOrSlug(active[CHOOSE i \in 1..Len(active) : active[i].category_id = categoryId])

FirstOccurrence(active, j) ==
    CHOOSE f \in 1..j :
        /\ handleOrSlug(active[f]) = handleOrSlug(active[j])
        /\ \A h \in 1..(f - 1) : handleOrSlug(active[h]) # handleOrSlug(active[j])

\* C32: when several active categories of one fixture normalize to the same
\* handle, once pass 1 of syncCategories is over the first occurrence has been
\* looked up (one list call), every later occurrence has caused no list,
\* create or update call of its own, counts.skipped holds one for each later
\* occurrence (besides the ones of the cross-market guard) and one
\* 'duplicate handle' warning is recorded for each.
DuplicateHandles ==
    LET active == activeOf(catalog.categories)
        later == LaterOccurrences(active)
        guarded == {w \in 1..Len(warnings) :
                       warnings[w][1] = "cross-market guard" /\ warnings[w][2] = "category"}
        warned == {w \in 1..Len(warnings) :
                      warnings[w][1] = "duplicate handle" /\ warnings[w][2] = "category"}
    IN sPc = "parents" =>
           /\ Cardinality(warned) = Cardinality(later)
           /\ counts["category"].skipped = Cardinality(later) + Cardinality(guarded)
           /\ \A j \in later :
                  /\ Cardinality({i \in 1..Len(calls) :
                                     /\ calls[i][1] = "list"
                                     /\ calls[i][2] = "category"
                                     /\ calls[i][3] =
                                            active[FirstOccurrence(active, j)].category_id}) = 1
                  /\ active[j].category_id # active[FirstOccurrence(active, j)].category_id
                         => \A i \in 1..Len(calls) :
                                calls[i][2] = "category"
                                    => calls[i][3] # active[j].category_id

\* The same for the fixtures in which no category_id is used twice.
DuplicateHandlesDistinctIds ==
    LET active == activeOf(catalog.categories)
    IN (\A i, j \in 1..Len(active) : active[i].category_id = active[j].category_id => i = j)
           => DuplicateHandles

\* pass 1 is over for a fixture with a repeated handle under two category_ids
DuplicateHandlesReached ==
    LET active == activeOf(catalog.categories)
    IN /\ sPc = "parents"
       /\ \E j \in LaterOccurrences(active) :
              active[j].category_id # active[FirstOccurrence(active, j)].category_id
       /\ counts["category"].skipped = 1
       /\ counts["category"].created = 1

(***************************************************************************)
(* The MCP server of the Medusa HTTP tools: the medusa_request tool.       *)
(* A path is the sequence of its pieces, "/" being a piece of its own.     *)
(***************************************************************************)
MaxSegments == 3

MEDUSA_BASE_URL == "http://localhost:9002"

SegmentNames == {"admin", "auth", "user", "vendor", "seller", "store", ".."}

RECURSIVE JoinSegments(_)
\* the segments with a "/" before each; an empty segment adds nothing
JoinSegments(segs) ==
    IF segs = <<>> THEN <<>>
    ELSE <<"/">> \o (IF Head(segs) = "" THEN <<>> ELSE <<Head(segs)>>) \o JoinSegments(Tail(segs))

\* the paths a caller passes: with or without the leading and the closing "/"
McpPaths ==
    LET segs == UNION {[1..n -> SegmentNames] : n \in 1..MaxSegments}
    IN {(IF lead THEN <<>> ELSE <<"/">>) \o Tail(JoinSegments(s))
            \o (IF close THEN <<"/">> ELSE <<>>) :
            s \in segs, lead \in BOOLEAN, close \in BOOLEAN}

\* str.startsWith(prefix)
startsWith(str, prefix) ==
    /\ Len(str) >= Len(prefix)
    /\ SubSeq(str, 1, Len(prefix)) = prefix

allowPrefixes ==
    [admin |-> {<<"/", "admin", "/">>, <<"/", "auth", "/", "user", "/">>},
     seller |-> {<<"/", "vendor", "/">>, <<"/", "auth", "/", "seller", "/">>}]

\* path.startsWith("/") ? path : `/${path}`
normalized(path) ==
    IF startsWith(path, <<"/">>) THEN path ELSE <<"/">> \o path

\* assertAllowedPath returns normalized(path) when this holds and throws
\* when it does not
pathAllowed(scope, path) ==
    \E p \in allowPrefixes[scope] : startsWith(normalized(path), p)

\* method.toUpperCase()
toUpperCase(method) ==
    CASE method = "get" -> "GET"
      [] method = "post" -> "POST"
      [] method = "trace" -> "TRACE"
      [] OTHER -> method

HttpMethods == {"GET", "POST", "PUT", "PATCH", "DELETE"}

RECURSIVE UrlSegments(_)
\* the segments of a path that starts with "/": what stands between the "/"
UrlSegments(path) ==
    IF path = <<>> THEN <<>>
    ELSE IF Len(path) = 1 \/ path[2] = "/" THEN <<"">> \o UrlSegments(Tail(path))
    ELSE <<path[2]>> \o UrlSegments(Tail(Tail(path)))

RECURSIVE RemoveDotSegments(_, _)
\* The path state of the URL parser fetch runs on its argument: ".." drops
\* the segment before it, "." is dropped, and either leaves an empty
\* segment when it is the last one.
RemoveDotSegments(segs, out) ==
    IF segs = <<>> THEN out
    ELSE LET last == Len(segs) = 1
             shortened == IF out = <<>> THEN out ELSE SubSeq(out, 1, Len(out) - 1)
         IN IF Head(segs) = ".."
            THEN RemoveDotSegments(Tail(segs),
                                   IF last THEN Append(shortened, "") ELSE shortened)
            ELSE IF Head(segs) = "."
            THEN RemoveDotSegments(Tail(segs), IF last THEN Append(out, "") ELSE out)
            ELSE RemoveDotSegments(Tail(segs), Append(out, Head(segs)))

\* the path of the request fetch sends for a URL of MEDUSA_BASE_URL
pathname(path) ==
    LET segs == RemoveDotSegments(UrlSegments(path), <<>>)
    IN IF segs = <<>> THEN <<"/">> ELSE JoinSegments(segs)

\* the answers of the backend: status, content type, longer than maxLen
McpResponses ==
    {[status |-> 200, ok |-> TRUE, contentType |-> "application/json", long |-> FALSE],
     [status |-> 404, ok |-> FALSE, contentType |-> "text/html", long |-> TRUE]}

\* The handler of medusa_request up to the fetch call: toUpperMethod,
\* assertAllowedPath, the URL, the body and its content type.
medusa_request ==
    /\ mcpPc = "tool"
    /\ LET method == toUpperCase(mcpArgs.method)
           withBody == mcpArgs.body # "undefined" /\ method # "GET"
       IN IF method \notin HttpMethods
          THEN /\ mcpPc' = "done"
               /\ mcpResult' = [kind |-> "error", message |-> "Unsupported HTTP method"]
               /\ UNCHANGED fetched
          ELSE IF ~pathAllowed(mcpArgs.scope, mcpArgs.path)
          THEN /\ mcpPc' = "done"
               /\ mcpResult' = [kind |-> "error", message |-> "Path not allowed for scope"]
               /\ UNCHANGED fetched
          ELSE /\ mcpPc' = "fetch"
               /\ fetched' = Append(fetched,
                      [scope |-> mcpArgs.scope,
                       url |-> <<MEDUSA_BASE_URL, normalized(mcpArgs.path)>>,
                       pathname |-> pathname(normalized(mcpArgs.path)),
                       method |-> method,
                       body |-> IF ~withBody THEN "undefined"
                                ELSE IF mcpArgs.body = "string" THEN "string"
                                ELSE "JSON.stringify",
                       contentType |-> IF withBody /\ mcpArgs.body # "string"
                                       THEN "application/json" ELSE "undefined"])
               /\ UNCHANGED mcpResult
    /\ UNCHANGED <<mergeVars, concVars, syncVars, cliVars, mcpArgs>>

\* The rest of medusaFetch and of the handler: the response, or the
\* rejection of fetch.
medusaFetch ==
    /\ mcpPc = "fetch"
    /\ mcpPc' = "done"
    /\ \/ \E res \in McpResponses :
              mcpResult' = [kind |-> "content",
                            summary |-> [url |-> fetched[Len(fetched)].url,
                                         status |-> res.status, ok |-> res.ok,
                                         contentType |-> res.contentType,
                                         truncated |-> res.long]]
       \/ mcpResult' = [kind |-> "error", message |-> "fetch failed"]
    /\ UNCHANGED <<mergeVars, concVars, syncVars, cliVars, mcpArgs, fetched>>

InitMcp ==
    /\ MergeIdle
    /\ ConcIdle
    /\ SyncIdle
    /\ CliIdle
    /\ mcpPc = "tool"
    /\ mcpArgs \in [scope : {"admin", "seller"}, path : McpPaths,
                    method : {"get", "POST", "TRACE"},
                    body : {"undefined", "string", "object"}]
    /\ fetched = <<>>
    /\ mcpResult = NoMcpResult

NextMcp ==
    \/ medusa_request
    \/ medusaFetch

SpecMcp == InitMcp /\ [][NextMcp]_vars

\* C33: for scope=admin every request issued targets a backend path under
\* /admin/ or /auth/user/, for scope=seller one under /vendor/ or
\* /auth/seller/, paths with '..' segments included; any other path is
\* rejected without a request being sent.
PathAllowlist ==
    /\ \A i \in 1..Len(fetched) :
           \E p \in allowPrefixes[fetched[i].scope] : startsWith(fetched[i].pathname, p)
    /\ (mcpPc # "tool" /\ ~pathAllowed(mcpArgs.scope, mcpArgs.path)) => fetched = <<>>

\* The second half alone: a path that does not begin with a prefix of its
\* scope is answered with an error and no request is sent.
PathRejected ==
    (mcpPc # "tool" /\ ~pathAllowed(mcpArgs.scope, mcpArgs.path))
        => fetched = <<>> /\ mcpResult.kind = "error"

(***************************************************************************)
(* The classification of the incoming rows by executeFill.                 *)
(***************************************************************************)
\* the rows stored for the run's instance and market before the run under
\* the section and record_key of an incoming row
StoredCounterpart(row) ==
    {r \in dbPre.storage.rows :
        /\ r.instance_id = args.instanceId
        /\ r.market_id = args.marketId
        /\ r.section = row.section
        /\ r.record_key = row.record_key}

\* "inserted", "updated" or "skipped": what an incoming row is
RowClass(row) ==
    IF StoredCounterpart(row) = {} THEN "inserted"
    ELSE IF mergeFill((CHOOSE r \in StoredCounterpart(row) : TRUE).data, row.data).changed
    THEN "updated"
    ELSE "skipped"

\* the record keys of the rows written so far, in the order of the writes
WrittenKeys ==
    LET writes == SelectSeq(log, LAMBDA e : e[1] = "UPSERT")
    IN [i \in 1..Len(writes) |-> writes[i][2]]

\* C34: executeFill classifies every incoming row as exactly one of inserted
\* (no stored row with its section and record_key), updated (merge reports
\* change) or skipped (merge reports no change), so the three counts add up
\* to the number of incoming rows; without dry-run a row is written exactly
\* when it is inserted or updated, and a stored row with no incoming
\* counterpart is never written or removed.
FillClassification ==
    (args.operation = "fill" /\ pc \in {"fill_row", "commit"}) =>
        LET turns == 1..(idx - 1)
            of(class) == Cardinality({i \in turns : RowClass(incomingRows[i]) = class})
            due == SelectSeq([i \in 1..(idx - 1) |-> incomingRows[i]],
                             LAMBDA row : RowClass(row) # "skipped")
        IN /\ report.inserted = of("inserted")
           /\ report.updated = of("updated")
           /\ report.skipped = of("skipped")
           /\ pc = "commit" =>
                  report.inserted + report.updated + report.skipped = Len(incomingRows)
           /\ WrittenKeys = IF args.dryRun THEN <<>>
                            ELSE [i \in 1..Len(due) |-> due[i].record_key]
           /\ removed = {}
           /\ \A r \in dbPre.storage.rows :
                  (\A i \in 1..Len(incomingRows) : r \notin StoredCounterpart(incomingRows[i]))
                      => r \in tx.storage.rows

\* a fill that is not a dry run has classified its rows: one of each class,
\* beside a stored row of the market that no incoming row stands for
FillClassificationWitness ==
    /\ args.operation = "fill"
    /\ pc = "commit"
    /\ ~args.dryRun
    /\ report.inserted >= 1
    /\ report.updated >= 1
    /\ report.skipped >= 1
    /\ \E r \in dbPre.storage.rows :
           /\ r.instance_id = args.instanceId
           /\ r.market_id = args.marketId
           /\ \A i \in 1..Len(incomingRows) : r \notin StoredCounterpart(incomingRows[i])

(***************************************************************************)
(* The identity key of the array branch of mergeFill.                      *)
(***************************************************************************)
\* at least one element holds a string under key and no element holds a
\* value of another type under it
StringsOnly(arr, key) ==
    /\ \E i \in 1..Len(arr) : HasStringKey(arr[i], key)
    /\ \A i \in 1..Len(arr) :
           (isObject(arr[i]) /\ key \in DOMAIN arr[i].v) => arr[i].v[key].t = "string"

\* the first key of idKeys with strings only in arr, or ""
FirstStringsOnly(arr) ==
    IF \E n \in 1..Len(idKeys) : StringsOnly(arr, idKeys[n])
    THEN idKeys[CHOOSE n \in 1..Len(idKeys) :
                    /\ StringsOnly(arr, idKeys[n])
                    /\ \A m \in 1..(n - 1) : ~StringsOnly(arr, idKeys[m])]
    ELSE ""

\* C35: for two arrays that reach the key detection, mergeFill picks the
\* first key of idKeys, the current array tried before the incoming one, for
\* which at least one element holds a string and no element holds a value of
\* a non-string type (0, false and null included); when no key qualifies the
\* current array is returned unchanged with changed = false.
IdentityKeyQualification ==
    (/\ mPc = "merged"
     /\ mD.t = "array"
     /\ mI.t = "array"
     /\ ~(Len(mD.v) = 0 /\ Len(mI.v) > 0)) =>
        LET stated == IF FirstStringsOnly(mD.v) # "" THEN FirstStringsOnly(mD.v)
                      ELSE FirstStringsOnly(mI.v)
            picked == IF detectIdKey(mD.v) # "" THEN detectIdKey(mD.v)
                      ELSE detectIdKey(mI.v)
        IN /\ picked = stated
           /\ stated = "" => mOut1 = [value |-> mD, changed |-> FALSE]

\* The same for arrays none of whose elements holds null under a key of idKeys.
IdentityKeyQualificationNoNull ==
    (\A arr \in {mD, mI} :
         arr.t = "array" =>
             \A i \in 1..Len(arr.v) : \A n \in 1..Len(idKeys) :
                 (isObject(arr.v[i]) /\ idKeys[n] \in DOMAIN arr.v[i].v)
                     => arr.v[i].v[idKeys[n]].t # "null")
        => IdentityKeyQualification

(***************************************************************************)
(* The order of the statements of an overwrite run.                        *)
(***************************************************************************)
\* C36: in an overwrite run every DELETE (stored rows, assignment tables,
\* metadata-scoped tables) is executed before the first INSERT of an incoming
\* row, and all of them after the one BEGIN of the run and before its COMMIT
\* or ROLLBACK.
DeletesPrecedeInserts ==
    args.operation = "overwrite" =>
        /\ \A d \in LogPositions("DELETE") : \A u \in LogPositions("UPSERT") : d < u
        /\ Cardinality(LogPositions("BEGIN")) <= 1
        /\ \A s \in LogPositions("DELETE") \cup LogPositions("UPSERT") :
               /\ \E b \in LogPositions("BEGIN") : b < s
               /\ \A e \in LogPositions("COMMIT") \cup LogPositions("ROLLBACK") : s < e

\* an overwrite has deleted stored rows and rows of another table and has
\* then inserted an incoming row, and commits
DeletesPrecedeInsertsWitness ==
    /\ args.operation = "overwrite"
    /\ pc = "ended"
    /\ LogPositions("COMMIT") # {}
    /\ LogPositions("UPSERT") # {}
    /\ \E d \in LogPositions("DELETE") : log[d][2] = STORAGE_TABLE
    /\ \E d \in LogPositions("DELETE") : log[d][2] # STORAGE_TABLE
    /\ \E t \in removed : t[1] = STORAGE_TABLE

(***************************************************************************)
(* The client and the pool at the end of a run.                            *)
(***************************************************************************)
LogPositionsOf(entry) == {i \in 1..Len(log) : log[i] = entry}

\* C37: in every run that creates the connection pool, on success and on
\* every error path, once runCli has returned or thrown the checked-out
\* client has been released and after that the pool has been closed.
ReleaseGuaranteed ==
    (pc \in {"exit", "ended"} /\ LogPositionsOf(<<"pool", "created">>) # {}) =>
        /\ Cardinality(LogPositionsOf(<<"pool", "ended">>)) = 1
        /\ Cardinality(LogPositions("connect")) = Cardinality(LogPositions("release"))
        /\ \A c \in LogPositions("connect") :
               \E r \in LogPositions("release") :
                   /\ c < r
                   /\ \A e \in LogPositionsOf(<<"pool", "ended">>) : r < e
        /\ \A s \in 1..Len(log) :
               log[s][1] \in {"BEGIN", "DDL", "DELETE", "UPSERT", "COMMIT", "ROLLBACK"}
                   => \A r \in LogPositions("release") : s < r

\* a run whose statement was rejected has ended: rolled back, the client
\* released, the pool closed
ReleaseGuaranteedWitness ==
    /\ pc = "ended"
    /\ outcome = "error"
    /\ LogPositions("ROLLBACK") # {}
    /\ LogPositions("release") # {}
    /\ LogPositionsOf(<<"pool", "ended">>) # {}

(***************************************************************************)
(* The changed flag of mergeFill.                                          *)
(***************************************************************************)
\* C38: mergeFill(current, incoming).changed is true if and only if the
\* returned value is structurally different from current; in particular it
\* is false when current and incoming are both null or both the empty string.
ChangedFlagExact ==
    mPc = "merged" => (mOut1.changed <=> mOut1.value # mD)

\* One half: a result that differs from current is reported as changed.
ChangeIsReported ==
    mPc = "merged" => (mOut1.value # mD => mOut1.changed)

(***************************************************************************)
(* Runs one after another, each for an instance and a market of its own,   *)
(* on the database the run before has left.                                *)
(***************************************************************************)
MaxSeqRuns == 3

\* the command lines of the runs: every operation, two instances, two markets
SeqArgs ==
    {a \in [operation : Operations, instanceId : {InstDev, InstProdPrefix},
            marketId : {"m1", "m2"}, confirm : {TRUE}, force : BOOLEAN,
            dryRun : BOOLEAN, dbUrl : {TRUE}] :
        /\ a.force <=> a.operation = "delete"
        /\ a.dryRun => a.operation = "overwrite"}

\* The next invocation of the command, with a command line of its own: a new
\* process, so every piece of run state starts afresh.
RunNext ==
    /\ pc = "ended"
    /\ runNo < MaxSeqRuns
    /\ runNo' = runNo + 1
    /\ args' \in SeqArgs
    /\ pc' = "gate"
    /\ failed' = FALSE
    /\ outcome' = "running"
    /\ tx' = db
    /\ dbPre' = db
    /\ input' = NoInput
    /\ existing' = {}
    /\ plan' = NoPlan
    /\ idx' = 0
    /\ report' = NewReport
    /\ log' = <<>>
    /\ removed' = {}
    /\ snapshot' = NoSnapshot
    /\ exportFile' = NoExportFile
    /\ UNCHANGED <<sideVars, env, stdin, tree, dryReport, db>>

InitSeq ==
    /\ MergeIdle
    /\ ConcIdle
    /\ SyncIdle
    /\ McpIdle
    /\ pc = "gate"
    /\ runNo = 1
    /\ args \in SeqArgs
    /\ env = [GP_ALLOW_PROD_MUTATIONS |-> "", DATABASE_URL |-> FALSE]
    /\ stdin = EndOfInput
    /\ tree = FullTree
    /\ RunStart(SampleDatabase)

NextSeq ==
    \/ Next
    \/ RunNext

SpecSeq == InitSeq /\ [][NextSeq]_vars

\* the stored rows of d that are not of the run's instance and market
OtherStoredRows(d) ==
    {r \in d.storage.rows :
        r.instance_id # args.instanceId \/ r.market_id # args.marketId}

\* C39: in a sequence of runs, a fill, overwrite or delete run for
\* (instance_id, market_id) never inserts, updates or deletes a stored row
\* whose instance_id or market_id differs from the run's: inside the
\* transaction and in the committed table those rows are the ones the run
\* found.
StoredRowIsolation ==
    /\ OtherStoredRows(tx) = OtherStoredRows(dbPre)
    /\ OtherStoredRows(db) = OtherStoredRows(dbPre)
    /\ \A t \in removed :
           t[1] = STORAGE_TABLE
               => t[2].instance_id = args.instanceId /\ t[2].market_id = args.marketId

\* the third run, for another market than earlier ones, has deleted and
\* written stored rows of its own beside the rows of other instances and
\* markets, which earlier runs have written
StoredRowIsolationWitness ==
    /\ runNo = MaxSeqRuns
    /\ pc = "ended"
    /\ outcome = "ok"
    /\ args.operation = "overwrite"
    /\ ~args.dryRun
    /\ \E t \in removed : t[1] = STORAGE_TABLE
    /\ db.storage.rows # dbPre.storage.rows
    /\ \E r \in OtherStoredRows(db) : r \notin PopulatedStorage

====
